---- MODULE Spec2Model ----
(***************************************************************************)
(* Model of the API query engine of webextanal:                            *)
(*   helpers/we-api-finder.js        compileQuery, QueryCompiler,          *)
(*                                   QueryMatcher (synchronous)            *)
(*   helpers/we-api-finder/async.js  QueryMatcherWorkerPool, QueryCompiler *)
(*                                   (async), AsyncQueryMatcher            *)
(*   helpers/we-api-finder/worker.js the worker's message handler          *)
(*                                                                         *)
(* A string is a sequence of one-character strings; a regular expression   *)
(* is a tree that RegExpEnds interprets the way RegExp.prototype.test      *)
(* decides whether some match exists.                                      *)
(***************************************************************************)
EXTENDS Integers, Sequences, FiniteSets, TLC

\* ------------------------------------------------------------------------
\* Characters and strings
\* ------------------------------------------------------------------------

Lower == {"a", "b", "c", "d", "e", "f", "g", "h", "i", "j", "k", "l", "m",
          "n", "o", "p", "q", "r", "s", "t", "u", "v", "w", "x", "y", "z"}

Upper == {"A", "B", "C", "D", "E", "F", "G", "H", "I", "J", "K", "L", "M",
          "N", "O", "P", "Q", "R", "S", "T", "U", "V", "W", "X", "Y", "Z"}

Digit == {"0", "1", "2", "3", "4", "5", "6", "7", "8", "9"}

\* \s of the regular expressions, restricted to the characters of the model.
WhiteSpace == {" ", "\t", "\n", "\r"}

\* The characters "." of a regular expression does not match (no s flag).
LineTerminator == {"\n", "\r"}

\* F applied to the value of v: v is computed once, however often F uses it.
WithValue(F(_), v) == CHOOSE r \in {F(x) : x \in {v}} : TRUE

\* s[from..] as a string.
Drop(s, n) == SubSeq(s, n + 1, Len(s))

\* String.prototype.startsWith
StartsWith(s, prefix) ==
    /\ Len(prefix) <= Len(s)
    /\ SubSeq(s, 1, Len(prefix)) = prefix

\* ------------------------------------------------------------------------
\* Regular expressions
\* ------------------------------------------------------------------------

ReClass(chars) == [k |-> "class", chars |-> chars]
ReCat(xs) == [k |-> "cat", xs |-> xs]
ReAlt(xs) == [k |-> "alt", xs |-> xs]
ReStar(x) == [k |-> "star", x |-> x]
ReOpt(x) == [k |-> "alt", xs |-> <<x, [k |-> "cat", xs |-> <<>>]>>]
ReBegin == [k |-> "begin"]
ReEnd == [k |-> "end"]
ReLookahead(x) == [k |-> "lookahead", x |-> x]
ReLiteral(s) == [k |-> "cat", xs |-> [i \in 1..Len(s) |-> ReClass({s[i]})]]

RECURSIVE RegExpEnds(_, _, _)
RECURSIVE CatEnds(_, _, _, _)
RECURSIVE StarEnds(_, _, _)

\* The positions at which a match of re that starts at position i of text
\* can end (positions are 1..Len(text)+1, the position before each character
\* and the one after the last).
RegExpEnds(re, text, i) ==
    CASE re.k = "class" ->
           IF i <= Len(text) /\ text[i] \in re.chars THEN {i + 1} ELSE {}
      [] re.k = "cat" -> CatEnds(re.xs, 1, text, {i})
      [] re.k = "alt" ->
           UNION {RegExpEnds(re.xs[n], text, i) : n \in 1..Len(re.xs)}
      [] re.k = "star" -> StarEnds(re.x, text, {i})
      [] re.k = "begin" -> IF i = 1 THEN {i} ELSE {}
      [] re.k = "end" -> IF i = Len(text) + 1 THEN {i} ELSE {}
      [] re.k = "lookahead" ->
           IF RegExpEnds(re.x, text, i) # {} THEN {i} ELSE {}

CatEnds(xs, n, text, from) ==
    IF n > Len(xs) \/ from = {}
    THEN from
    ELSE WithValue(LAMBDA ends : CatEnds(xs, n + 1, text, ends),
                   UNION {RegExpEnds(xs[n], text, i) : i \in from})

StarEnds(x, text, from) ==
    WithValue(LAMBDA more : IF more = from THEN from
                            ELSE StarEnds(x, text, more),
              from \cup UNION {RegExpEnds(x, text, i) : i \in from})

\* RegExp.prototype.test of a pattern without the g and y flags: is there a
\* match starting anywhere in text.
RegExpTest(re, text) ==
    \E i \in 1..(Len(text) + 1) : RegExpEnds(re, text, i) # {}

\* ------------------------------------------------------------------------
\* The lexical fragments of compileQuery
\* ------------------------------------------------------------------------

BeforeChars == {"!", "%", "&", "(", ")", "*", "+", ",", "-", ".", "/", ":",
                ";", "<", "=", ">", "?", "[", "^", "{", "|", "}", "~", "\n"}

AfterChars == {"%", "&", "(", ")", "*", "+", ",", "-", ".", "/", ":", ";",
               "<", "=", ">", "?", "[", "]", "^", "{", "|", "}", "\n"}

RhsAfterChars == {")", ",", ";", "]", "{", "}", ":"}

VarCharStart == Lower \cup Upper \cup {"_", "$"}

ReSpaces == ReStar(ReClass(WhiteSpace))

\* (?:[!%&()*+,\-./:;<=>?[^{|}~\n]|^)\s*
RE_BEFORE == ReCat(<<ReAlt(<<ReClass(BeforeChars), ReBegin>>), ReSpaces>>)

\* \s*(?:[%&()*+,\-./:;<=>?[\]^{|}\n]|$)
RE_AFTER == ReCat(<<ReSpaces, ReAlt(<<ReClass(AfterChars), ReEnd>>)>>)

\* \s*\??\.\s*
RE_DOT == ReCat(<<ReSpaces, ReOpt(ReClass({"?"})), ReClass({"."}), ReSpaces>>)

\* (?:chrome|browser)${RE_DOT}
RE_CHROME_OR_BROWSER_DOT ==
    ReCat(<<ReAlt(<<ReLiteral(<<"c", "h", "r", "o", "m", "e">>),
                    ReLiteral(<<"b", "r", "o", "w", "s", "e", "r">>)>>),
            RE_DOT>>)

\* [A-Za-z_$]
RE_VAR_CHAR_START == ReClass(VarCharStart)

\* RE_VAR_CHAR_END without [0-9]*.
RE_VAR_CHAR_END_NoDigits == RE_VAR_CHAR_START

\* ${RE_VAR_CHAR_START}[0-9]*
RE_VAR_CHAR_END == ReCat(<<RE_VAR_CHAR_START, ReStar(ReClass(Digit))>>)

\* ${RE_VAR_CHAR_END}${RE_DOT}
RE_ALIAS_DOT == ReCat(<<RE_VAR_CHAR_END, RE_DOT>>)

\* \s*(?:[),;\]{}:]|\|\||\?\?|$|\n(?=\s*${RE_VAR_CHAR_START}))
RE_RHS_AFTER ==
    ReCat(<<ReSpaces,
            ReAlt(<<ReClass(RhsAfterChars),
                    ReLiteral(<<"|", "|">>),
                    ReLiteral(<<"?", "?">>),
                    ReEnd,
                    ReCat(<<ReClass({"\n"}),
                            ReLookahead(ReCat(<<ReSpaces,
                                                RE_VAR_CHAR_START>>))>>)>>)>>)

\* ------------------------------------------------------------------------
\* compileQuery
\* ------------------------------------------------------------------------

RECURSIVE FirstIndexOf(_, _, _)
\* The first position >= i of s that holds a character of chars, or
\* Len(s) + 1 when there is none.
FirstIndexOf(s, chars, i) ==
    IF i > Len(s) \/ s[i] \in chars THEN i ELSE FirstIndexOf(s, chars, i + 1)

RECURSIVE Split(_, _)
\* String.prototype.split with a one-character separator.
Split(s, sep) ==
    LET at == FirstIndexOf(s, {sep}, 1)
    IN IF at > Len(s)
       THEN <<s>>
       ELSE <<SubSeq(s, 1, at - 1)>> \o Split(Drop(s, at), sep)

\* Array.prototype.slice(from) and slice(0, to), 0-based as in the source.
Slice(xs, from, to) == SubSeq(xs, from + 1, to)

\* The body of a pattern: the parts that are joined with RE_DOT, after
\* RE_CHROME_OR_BROWSER_DOT when host is set.  Two patterns whose parts
\* hold no "|" have the same regexString iff they have the same constructor
\* and the same body; RegExpString below spells the string out.
PatternBody(host, parts) == [host |-> host, parts |-> parts]

\* `(?:${p})`: the part is taken as regular expression source.  The parts of
\* the queries that the model matches against source texts hold no
\* character that is special in a regular expression, so the group matches
\* the part literally.
PartRegExp(p) == ReLiteral(p)

\* parts.join(RE_DOT), with every part wrapped as (?:part).
JoinDot(parts) ==
    ReCat([i \in 1..(2 * Len(parts) - 1) |->
              IF i % 2 = 1 THEN PartRegExp(parts[(i + 1) \div 2]) ELSE RE_DOT])

BodyRegExp(body) ==
    IF body.host
    THEN ReCat(<<RE_CHROME_OR_BROWSER_DOT, JoinDot(body.parts)>>)
    ELSE JoinDot(body.parts)

\* A pattern is the regexString that newRegExp is given; sharedRegExps makes
\* the RegExp object a function of that string.
re_any(body) == [ctor |-> "any", body |-> body]
re_dot(body) == [ctor |-> "dot", body |-> body]
re_rhs(body) == [ctor |-> "rhs", body |-> body]

\* new RegExp(regexString)
PatternRegExp(p) ==
    CASE p.ctor = "any" -> ReCat(<<RE_BEFORE, BodyRegExp(p.body), RE_AFTER>>)
      [] p.ctor = "dot" -> ReCat(<<RE_ALIAS_DOT, BodyRegExp(p.body), RE_AFTER>>)
      [] p.ctor = "rhs" -> ReCat(<<RE_BEFORE, BodyRegExp(p.body), RE_RHS_AFTER>>)

Browser_ == <<"b", "r", "o", "w", "s", "e", "r", ".">>
Chrome_ == <<"c", "h", "r", "o", "m", "e", ".">>

\* hasRoot if only "browser." were a root.
hasRoot_BrowserOnly(query) == StartsWith(query, Browser_)

hasRoot(query) == StartsWith(query, Browser_) \/ StartsWith(query, Chrome_)

\* compileQuery if it went on to alias the first four parts.
compileQuery_FourAliased(query) ==
    LET parts == Split(query, ".")
        n == Len(parts)
        literal == <<  <<re_any(PatternBody(FALSE, parts))>>  >>
        first == IF n >= 2 /\ ~hasRoot(query)
                 THEN << <<re_rhs(PatternBody(TRUE, Slice(parts, 0, 1))),
                           re_dot(PatternBody(FALSE, Slice(parts, 1, n)))>> >>
                 ELSE <<>>
        more == [k \in 1..(IF n >= 5 THEN 3 ELSE IF n >= 3 THEN n - 2 ELSE 0) |->
                    <<re_rhs(PatternBody(FALSE, Slice(parts, 0, k + 1))),
                      re_dot(PatternBody(FALSE, Slice(parts, k + 1, n)))>>]
    IN literal \o first \o more

\* The list of conditions of a query; each condition is a list of patterns.
compileQuery(query) ==
    LET parts == Split(query, ".")
        n == Len(parts)
        literal == <<  <<re_any(PatternBody(FALSE, parts))>>  >>
        first == IF n >= 2 /\ ~hasRoot(query)
                 THEN << <<re_rhs(PatternBody(TRUE, Slice(parts, 0, 1))),
                           re_dot(PatternBody(FALSE, Slice(parts, 1, n)))>> >>
                 ELSE <<>>
        second == IF n >= 3
                  THEN << <<re_rhs(PatternBody(FALSE, Slice(parts, 0, 2))),
                            re_dot(PatternBody(FALSE, Slice(parts, 2, n)))>> >>
                  ELSE <<>>
        third == IF n >= 4
                 THEN << <<re_rhs(PatternBody(FALSE, Slice(parts, 0, 3))),
                           re_dot(PatternBody(FALSE, Slice(parts, 3, n)))>> >>
                 ELSE <<>>
    IN literal \o first \o second \o third

\* The patterns of a list of conditions.
PatternsOf(compiledPatterns) ==
    UNION {{compiledPatterns[c][k] : k \in 1..Len(compiledPatterns[c])} :
           c \in 1..Len(compiledPatterns)}

\* ------------------------------------------------------------------------
\* new RegExp(regexString): the syntax of the pattern
\* ------------------------------------------------------------------------

\* The source of a part as tokens: the characters of the part inside (?: ).
PartSource(p) == <<"(?:">> \o p \o <<")">>

RECURSIVE JoinDotSource(_)
\* parts.join(RE_DOT) as tokens; a fragment such as RE_DOT is one token.
JoinDotSource(parts) ==
    IF Len(parts) = 1 THEN PartSource(parts[1])
    ELSE PartSource(parts[1]) \o <<"RE_DOT">> \o JoinDotSource(Tail(parts))

\* The regexString of a pattern as tokens.
RegExpSource(p) ==
    LET body == (IF p.body.host THEN <<"RE_CHROME_OR_BROWSER_DOT">> ELSE <<>>)
                    \o JoinDotSource(p.body.parts)
    IN CASE p.ctor = "any" ->
                <<"RE_BEFORE", "(?:">> \o body \o <<")", "RE_AFTER">>
         [] p.ctor = "dot" ->
                <<"RE_ALIAS_DOT", "(?:">> \o body \o <<")", "RE_AFTER">>
         [] p.ctor = "rhs" ->
                <<"RE_BEFORE", "(?:">> \o body \o <<")", "RE_RHS_AFTER">>

\* The fragments of compileQuery: each is well-formed on its own and ends
\* with a term that takes no "*".
Fragments == {"RE_BEFORE", "RE_AFTER", "RE_DOT", "RE_CHROME_OR_BROWSER_DOT",
              "RE_ALIAS_DOT", "RE_RHS_AFTER"}

RECURSIVE SyntaxOkFrom(_, _, _, _)
\* The parser of new RegExp over the tokens from position i on, inside depth
\* open groups; quantifiable says that the term before i takes a "*".  A
\* ")" with no open group is "Unmatched ')'", a "*" after no term is
\* "Nothing to repeat", an open group at the end is "Unterminated group".
SyntaxOkFrom(tokens, i, depth, quantifiable) ==
    IF i > Len(tokens) THEN depth = 0
    ELSE CASE tokens[i] \in {"(?:", "("} ->
                SyntaxOkFrom(tokens, i + 1, depth + 1, FALSE)
           [] tokens[i] = ")" ->
                depth > 0 /\ SyntaxOkFrom(tokens, i + 1, depth - 1, TRUE)
           [] tokens[i] = "*" ->
                quantifiable /\ SyntaxOkFrom(tokens, i + 1, depth, FALSE)
           [] tokens[i] \in Fragments ->
                SyntaxOkFrom(tokens, i + 1, depth, FALSE)
           [] OTHER -> SyntaxOkFrom(tokens, i + 1, depth, TRUE)

\* new RegExp(regexString) throws a SyntaxError.
newRegExpThrows(p) == ~SyntaxOkFrom(RegExpSource(p), 1, 0, FALSE)

RECURSIVE Flatten(_)
\* The patterns of a list of conditions in the order compileQuery builds
\* them.
Flatten(compiledPatterns) ==
    IF compiledPatterns = <<>> THEN <<>>
    ELSE Head(compiledPatterns) \o Flatten(Tail(compiledPatterns))

\* compileQuery(query) throws: one of its patterns has no valid syntax.
compileQueryThrows(query) ==
    \E p \in PatternsOf(compileQuery(query)) : newRegExpThrows(p)

\* The patterns newRegExp has put into sharedRegExps when compileQuery
\* throws: those built before the first pattern that has no valid syntax.
CompiledBeforeThrow(query) ==
    LET ps == Flatten(compileQuery(query))
        bad == CHOOSE k \in 1..Len(ps) :
                   /\ newRegExpThrows(ps[k])
                   /\ \A j \in 1..(k - 1) : ~newRegExpThrows(ps[j])
    IN {ps[j] : j \in 1..(bad - 1)}

RECURSIVE Spell(_)
\* The characters of a list of tokens: (?: and RE_CHROME_OR_BROWSER_DOT are
\* spelled out, the other fragments hold a "." that no part can hold, or
\* end the string, and are kept whole.
Spell(tokens) ==
    IF tokens = <<>> THEN <<>>
    ELSE (CASE Head(tokens) = "(?:" -> <<"(", "?", ":">>
            [] Head(tokens) = "RE_CHROME_OR_BROWSER_DOT" ->
                   <<"(", "?", ":", "c", "h", "r", "o", "m", "e", "|",
                     "b", "r", "o", "w", "s", "e", "r", ")", "RE_DOT">>
            [] OTHER -> <<Head(tokens)>>) \o Spell(Tail(tokens))

\* regexString: the key of a pattern in sharedRegExps.
RegExpString(p) == Spell(RegExpSource(p))

\* A RegExp object: object tells one instance from another, source is the
\* string it was constructed from.  The next object is one that no entry of
\* the map refers to.
NextObject(shared) ==
    IF shared = {} THEN 1
    ELSE 1 + (CHOOSE n \in {e.object : e \in shared} :
                  \A e \in shared : e.object <= n)

\* newRegExp if it constructed a RegExp without looking the string up:
\* Map.prototype.set replaces the entry of the string.
newRegExp_NoLookup(shared, p) ==
    LET re == [object |-> NextObject(shared), source |-> RegExpString(p)]
    IN [re |-> re,
        shared |-> {e \in shared : e.source # re.source} \cup {re}]

\* newRegExp(regexString) on the map shared, kept as the set of its
\* entries: the RegExp returned and the map after the call.
newRegExp(shared, p) ==
    LET hit == {e \in shared : e.source = RegExpString(p)}
    IN IF hit # {}
       THEN [re |-> CHOOSE e \in hit : TRUE, shared |-> shared]
       ELSE LET re == [object |-> NextObject(shared),
                       source |-> RegExpString(p)]
            IN [re |-> re, shared |-> shared \cup {re}]

RECURSIVE CompileObjects(_, _, _)
\* compileQuery on the map shared: the calls of newRegExp for the patterns
\* ps from the k-th on, in the order compileQuery makes them, up to the
\* first that throws.  objects are the RegExps returned.
CompileObjects(shared, ps, k) ==
    IF k > Len(ps) THEN [shared |-> shared, objects |-> <<>>, threw |-> FALSE]
    ELSE IF /\ \A e \in shared : e.source # RegExpString(ps[k])
            /\ newRegExpThrows(ps[k])
    THEN [shared |-> shared, objects |-> <<>>, threw |-> TRUE]
    ELSE WithValue(LAMBDA made :
             WithValue(LAMBDA rest :
                 [rest EXCEPT !.objects = <<made.re>> \o @],
                 CompileObjects(made.shared, ps, k + 1)),
             newRegExp(shared, ps[k]))

\* ------------------------------------------------------------------------
\* QueryMatcher.addSource: comment stripping
\* ------------------------------------------------------------------------

RECURSIVE StripSingleLine(_, _)
\* .replace(/(?<!:)\/\/.*/g, ""), scanning text from position i.
StripSingleLine(text, i) ==
    IF i > Len(text) THEN <<>>
    ELSE IF /\ text[i] = "/"
            /\ i + 1 <= Len(text) /\ text[i + 1] = "/"
            /\ (i = 1 \/ text[i - 1] # ":")
         THEN StripSingleLine(text, FirstIndexOf(text, LineTerminator, i + 2))
         ELSE <<text[i]>> \o StripSingleLine(text, i + 1)

RECURSIVE FirstCommentEnd(_, _)
\* The first position j >= i with text[j..j+1] = "*/", or 0.
FirstCommentEnd(text, i) ==
    IF i + 1 > Len(text) THEN 0
    ELSE IF text[i] = "*" /\ text[i + 1] = "/" THEN i
    ELSE FirstCommentEnd(text, i + 1)

RECURSIVE StripMultiLine(_, _)
\* .replace(/\/\*.*?\*\//sg, ""), scanning text from position i.
StripMultiLine(text, i) ==
    IF i > Len(text) THEN <<>>
    ELSE LET close == IF text[i] = "/" /\ i + 1 <= Len(text) /\ text[i + 1] = "*"
                      THEN FirstCommentEnd(text, i + 2)
                      ELSE 0
         IN IF close # 0
            THEN StripMultiLine(text, close + 2)
            ELSE <<text[i]>> \o StripMultiLine(text, i + 1)

\* sourceTextWithoutComments
StripComments(sourceText) == StripMultiLine(StripSingleLine(sourceText, 1), 1)

\* ------------------------------------------------------------------------
\* QueryCompiler and QueryMatcher (helpers/we-api-finder.js)
\* ------------------------------------------------------------------------

\* Map.prototype.has on the map of queries, kept as the list of its entries
\* in insertion order.
HasQuery(entries, query) == \E i \in 1..Len(entries) : entries[i].query = query

\* addQuery without the test for a duplicate, if the map kept its entries in
\* the order they were last set: the query moves to the end.
addQuery_SetAgain(entries, query) ==
    Append(SelectSeq(entries, LAMBDA e : e.query # query),
           [query |-> query, compiledPatterns |-> compileQuery(query)])

\* addQuery if it replaced the map by one that holds the new query alone.
addQuery_Replace(entries, query) ==
    IF HasQuery(entries, query)
    THEN entries
    ELSE <<[query |-> query, compiledPatterns |-> compileQuery(query)]>>

\* QueryCompiler.addQuery: the new list of entries.
addQuery(entries, query) ==
    IF HasQuery(entries, query)
    THEN entries
    ELSE Append(entries, [query |-> query,
                          compiledPatterns |-> compileQuery(query)])

\* QueryCompiler.addQuery: the new pattern cache (newRegExp sets the regexps
\* that are not in it yet).
addQueryRegExps(entries, shared, query) ==
    IF HasQuery(entries, query)
    THEN shared
    ELSE shared \cup PatternsOf(compileQuery(query))

\* addSource if the matcher kept only the text added last.
addSource_OnlyLast(sourceTexts, sourceText) ==
    {sourceText, StripComments(sourceText)}

\* addSource if it stored only the copy without comments.
addSource_StrippedOnly(sourceTexts, sourceText) ==
    sourceTexts \cup {StripComments(sourceText)}

\* addSource if a text that is stored already were taken out again.
addSource_Toggle(sourceTexts, sourceText) ==
    IF sourceText \in sourceTexts
    THEN sourceTexts \ {sourceText, StripComments(sourceText)}
    ELSE sourceTexts \cup {sourceText, StripComments(sourceText)}

\* QueryMatcher.addSource: the new set of source texts.
addSource(sourceTexts, sourceText) ==
    sourceTexts \cup {sourceText, StripComments(sourceText)}

\* sourceTexts.every(...) for some: the pattern must match every text.
SomeSourceMatches_Every(regex, sourceTexts) ==
    \A sourceText \in sourceTexts : RegExpTest(PatternRegExp(regex), sourceText)

\* sourceTexts.some(sourceText => regex.test(sourceText))
SomeSourceMatches(regex, sourceTexts) ==
    \E sourceText \in sourceTexts : RegExpTest(PatternRegExp(regex), sourceText)

\* testMatch if a pattern found in sharedRegExpResults counted as matched,
\* whatever the result stored for it.
testMatch_HasMeansTrue(regex, sourceTexts, results) ==
    IF regex \in DOMAIN results
    THEN [res |-> TRUE, results |-> results]
    ELSE WithValue(LAMBDA res : [res |-> res,
                                 results |-> (regex :> res) @@ results],
                   SomeSourceMatches(regex, sourceTexts))

\* testMatch: the result for regex and the pattern results known after it.
\* results is sharedRegExpResults, a function on the patterns tested so far.
testMatch(regex, sourceTexts, results) ==
    IF regex \in DOMAIN results
    THEN [res |-> results[regex], results |-> results]
    ELSE WithValue(LAMBDA res : [res |-> res,
                                 results |-> (regex :> res) @@ results],
                   SomeSourceMatches(regex, sourceTexts))

RECURSIVE EveryPattern(_, _, _, _)
\* ps.every(p => testMatch(p)), from pattern k on; stops at the first
\* pattern that does not match.
EveryPattern(ps, k, sourceTexts, results) ==
    IF k > Len(ps)
    THEN [res |-> TRUE, results |-> results]
    ELSE WithValue(LAMBDA t :
                       IF t.res
                       THEN EveryPattern(ps, k + 1, sourceTexts, t.results)
                       ELSE [res |-> FALSE, results |-> t.results],
                   testMatch(ps[k], sourceTexts, results))

RECURSIVE SomeCondition_Every(_, _, _, _)
\* compiledPatterns.every(ps => ...) for some: every condition must match.
SomeCondition_Every(compiledPatterns, c, sourceTexts, results) ==
    IF c > Len(compiledPatterns)
    THEN [res |-> TRUE, results |-> results]
    ELSE WithValue(LAMBDA e :
                       IF e.res
                       THEN SomeCondition_Every(compiledPatterns, c + 1,
                                                sourceTexts, e.results)
                       ELSE [res |-> FALSE, results |-> e.results],
                   EveryPattern(compiledPatterns[c], 1, sourceTexts, results))

RECURSIVE SomeCondition(_, _, _, _)
\* compiledPatterns.some(ps => ...), from condition c on; stops at the first
\* condition that matches.
SomeCondition(compiledPatterns, c, sourceTexts, results) ==
    IF c > Len(compiledPatterns)
    THEN [res |-> FALSE, results |-> results]
    ELSE WithValue(LAMBDA e :
                       IF e.res
                       THEN [res |-> TRUE, results |-> e.results]
                       ELSE SomeCondition(compiledPatterns, c + 1, sourceTexts,
                                          e.results),
                   EveryPattern(compiledPatterns[c], 1, sourceTexts, results))

RECURSIVE FindMatchesFrom(_, _, _, _, _)
\* The loop of findMatches over the entries of the map, from entry i on.
FindMatchesFrom(entries, i, matchedQueries, sourceTexts, results) ==
    IF i > Len(entries) THEN matchedQueries
    ELSE IF entries[i].query \in matchedQueries
    THEN FindMatchesFrom(entries, i + 1, matchedQueries, sourceTexts, results)
    ELSE WithValue(LAMBDA m :
                       FindMatchesFrom(entries, i + 1,
                                       IF m.res
                                       THEN matchedQueries \cup {entries[i].query}
                                       ELSE matchedQueries,
                                       sourceTexts, m.results),
                   SomeCondition(entries[i].compiledPatterns, 1, sourceTexts,
                                 results))

\* findMatches if it kept only the queries matched by this call.
findMatches_OnlyNew(entries, matchedQueries, sourceTexts) ==
    FindMatchesFrom(entries, 1, matchedQueries, sourceTexts, <<>>)
        \ matchedQueries

\* QueryMatcher.findMatches: the new matchedQueries.
findMatches(entries, matchedQueries, sourceTexts) ==
    FindMatchesFrom(entries, 1, matchedQueries, sourceTexts, <<>>)

RECURSIVE AddSources(_, _)
\* for (const sourceText of sourceTexts) qm.addSource(sourceText)
AddSources(stored, sourceTexts) ==
    IF sourceTexts = {} THEN stored
    ELSE WithValue(LAMBDA sourceText :
                       AddSources(addSource(stored, sourceText),
                                  sourceTexts \ {sourceText}),
                   CHOOSE t \in sourceTexts : TRUE)

\* worker.js, parentPort.on("message"): the results the worker posts for a
\* request, computed by a new QueryMatcher over the worker's own copy of the
\* query map.
WorkerResults(entries, sourceTexts) ==
    WithValue(LAMBDA stored : findMatches(entries, {}, stored),
              AddSources({}, sourceTexts))

\* ------------------------------------------------------------------------
\* Bounds and the strings of the model
\* ------------------------------------------------------------------------

\* Async matchers vended, tasks submitted and the largest pool size tried.
MaxMatchers == 1
MaxTasks == 3
MaxThreads == 2
\* Synchronous matchers vended.
MaxSyncMatchers == 2
\* The characters in front of ".c" in a source text of AliasTexts.
MaxAliasLen == 3
\* Input lines read by bin/filter.
MaxLines == 3
\* The input lines of a run of the api-usage filter.
MaxApiLines == 2
\* Tasks submitted while a synchronous matcher is used next to the pool.
MaxMixedTasks == 1
\* The characters of a query spelled out of QueryChars, and the parts of a
\* query made of the parts of QueryParts.
MaxQueryLen == 3
MaxParts == 5
\* Tasks given to a ConcurrentTaskQueue, and the largest max tried.
MaxQueued == 4
MaxConcurrent == 2

\* "t.c" and "s.l.g": a query of two parts and one of three.
QueryTC == <<"t", ".", "c">>
QuerySLG == <<"s", ".", "l", ".", "g">>
ModelQueries == {QueryTC, QuerySLG}

\* "t.c(" holds QueryTC; "s/**/.l.g" holds QuerySLG once its comment is
\* stripped.
SourceTC == <<"t", ".", "c", "(">>
SourceSLG == <<"s", "/", "*", "*", "/", ".", "l", ".", "g">>
ModelSources == {SourceTC, SourceSLG}

\* "s.l" shares the pattern of the alias "= chrome.s" with "s.l.g".
\* "t.c(//s.l.g" is "t.c(" once its comment is stripped and holds QuerySLG
\* in the comment; "y.l.g" holds the property access ".l.g" on an alias.
QuerySL == <<"s", ".", "l">>
SourceTCNote == <<"t", ".", "c", "(", "/", "/", "s", ".", "l", ".", "g">>
SourceDotLG == <<"y", ".", "l", ".", "g">>
\* "=chrome.s" assigns the first part of QuerySL and QuerySLG to an alias.
SourceAliasS == <<"=", "c", "h", "r", "o", "m", "e", ".", "s">>
MatchQueries == {QueryTC, QuerySL, QuerySLG}
MatchSources == {SourceTC, SourceTCNote, SourceDotLG, SourceAliasS}

\* Queries that hold characters special in a regular expression.
QueryChars == {"t", ".", "(", ")", "*"}
SpelledQueries == UNION {[1..n -> QueryChars] : n \in 0..MaxQueryLen}

RECURSIVE Join(_, _)
\* Array.prototype.join
Join(parts, sep) ==
    IF Len(parts) = 1 THEN parts[1]
    ELSE parts[1] \o sep \o Join(Tail(parts), sep)

\* Queries of up to MaxParts parts, with and without a root.
QueryParts == {<<"c", "h", "r", "o", "m", "e">>,
               <<"b", "r", "o", "w", "s", "e", "r">>, <<"t">>, <<"c">>}
PartQueries ==
    {Join(parts, <<".">>) :
         parts \in UNION {[1..n -> QueryParts] : n \in 1..MaxParts}}

CompileQueries == SpelledQueries \cup PartQueries

\* Queries whose patterns share regexStrings, across queries and within
\* one query, and one that new RegExp rejects.
ChromeOrBrowser == <<"c", "h", "r", "o", "m", "e", "|",
                     "b", "r", "o", "w", "s", "e", "r">>
QuerySC == <<"s", ".", "c">>
QueryHostT == ChromeOrBrowser \o <<".", "t", ".", "c">>
QueryHostHost == ChromeOrBrowser \o <<".">> \o ChromeOrBrowser \o <<".", "t">>
QueryOpen == <<"t", ".", "(">>
InternQueries == {QueryTC, QuerySC, QueryHostT, QueryHostHost, QueryOpen}

\* Source texts that end in a property access of "c": in front of ".c"
\* come an identifier start, a digit, a dot, white space, or a character
\* that is none of these.
AliasChars == {"a", "1", ".", " ", ")"}
AliasTexts ==
    {prefix \o <<".", "c">> :
        prefix \in UNION {[1..n -> AliasChars] : n \in 0..MaxAliasLen}}
\* The text that the first pattern of the first-part-aliased condition of
\* "t.c" matches.
SourceHostT == <<"=", "c", "h", "r", "o", "m", "e", ".", "t">>

\* The queries and the source texts given to the asynchronous flavor.
AsyncQueries == {QueryTC}
AsyncSources == {SourceTC}

\* ------------------------------------------------------------------------
\* State
\* ------------------------------------------------------------------------

VARIABLES
    queriesAndPatterns, \* QueryCompiler.queriesAndPatterns: list of entries
    sharedRegExps,      \* QueryCompiler.sharedRegExps: the patterns compiled
    syncMatchers,       \* the QueryMatcher objects vended by the compiler
    workerPool,         \* async QueryCompiler.workerPool: a pool or 0 (null)
    numThreads,         \* what getNumThreads() returns in this process
    pools,              \* the QueryMatcherWorkerPool objects created
    workers,            \* the Worker objects created
    tasks,              \* the tasks given to queryResultsForSourceTexts
    asyncMatchers,      \* the AsyncQueryMatcher objects vended
    lastCall,           \* the outcome of the call just made, if it has one
    lines,              \* bin/filter: the input lines read, each with the
                        \* state of the promise of its async function
    pendingPromise,     \* bin/filter main: the line whose promise it is, or 0
    stdout,             \* the lines whose output console.log has written
    stderr,             \* the lines whose warnings console.warn has written
    rl,                 \* the readline interface: "open" or "closed"
    mainState,          \* where main() is
    seenExts,           \* FILTERS["api-usage"].seenExts: the extension
                        \* directories of the lines seen
    ioTaskQueue,        \* a ConcurrentTaskQueue (max, size, tasks); made
                        \* says that it has been constructed
    ioTasks             \* the tasks given to queueTask, each with the state
                        \* of its callback and of its promise

vars == <<queriesAndPatterns, sharedRegExps, syncMatchers, workerPool,
          numThreads, pools, workers, tasks, asyncMatchers, lastCall,
          lines, pendingPromise, stdout, stderr, rl, mainState, seenExts,
          ioTaskQueue, ioTasks>>

queueVars == <<ioTaskQueue, ioTasks>>
filterVars == <<lines, pendingPromise, stdout, stderr, rl, mainState,
                seenExts>>
finderVars == <<queriesAndPatterns, sharedRegExps, syncMatchers, workerPool,
                numThreads, pools, workers, tasks, asyncMatchers, lastCall>>

compilerVars == <<queriesAndPatterns, sharedRegExps>>
asyncVars == <<workerPool, pools, workers, tasks, asyncMatchers>>

NoCall == [op |-> "none", threw |-> FALSE, matcher |-> 0]

Init ==
    /\ queriesAndPatterns = <<>>
    /\ sharedRegExps = {}
    /\ syncMatchers = <<>>
    /\ workerPool = 0
    /\ numThreads \in 0..MaxThreads
    /\ pools = <<>>
    /\ workers = <<>>
    /\ tasks = <<>>
    /\ asyncMatchers = <<>>
    /\ lastCall = NoCall
    /\ lines = <<>>
    /\ pendingPromise = 0
    /\ stdout = <<>>
    /\ stderr = <<>>
    /\ rl = "open"
    /\ mainState = "readLines"
    /\ seenExts = {}
    /\ ioTaskQueue = [made |-> FALSE, max |-> 0, size |-> 0, tasks |-> <<>>]
    /\ ioTasks = <<>>

\* ------------------------------------------------------------------------
\* QueryMatcherWorkerPool (helpers/we-api-finder/async.js)
\*
\* The operators below work on h, the objects a call of the pool can change:
\* h.pools, h.workers and h.tasks.
\* ------------------------------------------------------------------------

\* new QueryMatcherWorkerPool(queriesAndPatterns).  The pool keeps a
\* reference to the compiler's map, which the model reads from
\* queriesAndPatterns when a worker is spawned.
NewPool ==
    [numThreads |-> numThreads, workers |-> <<>>, idleWorkers |-> <<>>,
     taskQueue |-> <<>>]

\* new Worker(workerSrc, { workerData }): workerData is cloned when the
\* worker is constructed.  inbox holds the requests posted to the worker that
\* it has not answered yet; sentFor is the task a request was posted for.
NewWorker(p) ==
    [pool |-> p, queriesAndPatterns |-> queriesAndPatterns,
     taskResolver |-> 0, inbox |-> <<>>, state |-> "alive"]

\* The test of getFreeWorker with <= for <.
MaySpawn_Inclusive(pool) == Len(pool.workers) <= pool.numThreads

\* this.workers.length < this.numThreads
MaySpawn(pool) == Len(pool.workers) < pool.numThreads

\* getFreeWorker if it read the head of idleWorkers without removing it.
getFreeWorker_NoShift(h, p) ==
    IF Len(h.pools[p].idleWorkers) > 0
    THEN [worker |-> Head(h.pools[p].idleWorkers), h |-> h]
    ELSE IF MaySpawn(h.pools[p])
    THEN LET worker == Len(h.workers) + 1
         IN [worker |-> worker,
             h |-> [h EXCEPT !.workers = Append(@, NewWorker(p)),
                             !.pools[p].workers = Append(@, worker)]]
    ELSE [worker |-> 0, h |-> h]

\* getFreeWorker if it spawned a worker before it looked for an idle one.
getFreeWorker_SpawnFirst(h, p) ==
    IF MaySpawn(h.pools[p])
    THEN LET worker == Len(h.workers) + 1
         IN [worker |-> worker,
             h |-> [h EXCEPT !.workers = Append(@, NewWorker(p)),
                             !.pools[p].workers = Append(@, worker)]]
    ELSE IF Len(h.pools[p].idleWorkers) > 0
    THEN [worker |-> Head(h.pools[p].idleWorkers),
          h |-> [h EXCEPT !.pools[p].idleWorkers = Tail(@)]]
    ELSE [worker |-> 0, h |-> h]

\* getFreeWorker with pop() for shift(): the idle worker pushed last is taken.
getFreeWorker_Pop(h, p) ==
    IF Len(h.pools[p].idleWorkers) > 0
    THEN [worker |-> h.pools[p].idleWorkers[Len(h.pools[p].idleWorkers)],
          h |-> [h EXCEPT !.pools[p].idleWorkers =
                              SubSeq(@, 1, Len(@) - 1)]]
    ELSE IF MaySpawn(h.pools[p])
    THEN LET worker == Len(h.workers) + 1
         IN [worker |-> worker,
             h |-> [h EXCEPT !.workers = Append(@, NewWorker(p)),
                             !.pools[p].workers = Append(@, worker)]]
    ELSE [worker |-> 0, h |-> h]

\* getFreeWorker if, at the ceiling with no idle worker, it returned the
\* worker spawned first for null.
getFreeWorker_ReuseBusy(h, p) ==
    IF Len(h.pools[p].idleWorkers) > 0
    THEN [worker |-> Head(h.pools[p].idleWorkers),
          h |-> [h EXCEPT !.pools[p].idleWorkers = Tail(@)]]
    ELSE IF MaySpawn(h.pools[p])
    THEN LET worker == Len(h.workers) + 1
         IN [worker |-> worker,
             h |-> [h EXCEPT !.workers = Append(@, NewWorker(p)),
                             !.pools[p].workers = Append(@, worker)]]
    ELSE IF Len(h.pools[p].workers) > 0
    THEN [worker |-> Head(h.pools[p].workers), h |-> h]
    ELSE [worker |-> 0, h |-> h]

\* getFreeWorker: the worker returned (0 for null) and the objects after it.
getFreeWorker(h, p) ==
    IF Len(h.pools[p].idleWorkers) > 0
    THEN [worker |-> Head(h.pools[p].idleWorkers),
          h |-> [h EXCEPT !.pools[p].idleWorkers = Tail(@)]]
    ELSE IF MaySpawn(h.pools[p])
    THEN LET worker == Len(h.workers) + 1
         IN [worker |-> worker,
             h |-> [h EXCEPT !.workers = Append(@, NewWorker(p)),
                             !.pools[p].workers = Append(@, worker)]]
    ELSE [worker |-> 0, h |-> h]

\* this.taskQueue.pop() for shift(): the last task submitted is taken.
ShiftTask_Pop(taskQueue) ==
    [task |-> taskQueue[Len(taskQueue)],
     rest |-> SubSeq(taskQueue, 1, Len(taskQueue) - 1)]

\* this.taskQueue.shift(): the task taken and the queue left.
ShiftTask(taskQueue) == [task |-> Head(taskQueue), rest |-> Tail(taskQueue)]

RECURSIVE runNextTask(_, _)
\* _runNextTask.  postMessage clones the set of source texts that the task
\* refers to, which is the set of the matcher that submitted the task.
runNextTask(h, p) ==
    IF Len(h.pools[p].taskQueue) = 0 THEN h
    ELSE WithValue(LAMBDA free :
           IF free.worker = 0 THEN free.h
           ELSE LET shifted == ShiftTask(free.h.pools[p].taskQueue)
                    task == shifted.task
                    request ==
                        [sourceTexts |->
                             asyncMatchers[free.h.tasks[task].matcher].sourceTexts,
                         sentFor |-> task]
                IN WithValue(LAMBDA posted : runNextTask(posted, p),
                       [free.h EXCEPT
                           !.pools[p].taskQueue = shifted.rest,
                           !.workers[free.worker].taskResolver = task,
                           !.workers[free.worker].inbox = Append(@, request),
                           !.tasks[task].state = "posted",
                           !.tasks[task].worker = free.worker]),
           getFreeWorker(h, p))

\* The pool has spawned at most one worker, every worker it spawned is in
\* idleWorkers and no task waits.
AllIdle(pool) ==
    /\ Len(pool.workers) <= 1
    /\ pool.idleWorkers = pool.workers
    /\ pool.taskQueue = <<>>

\* The place of the task about to be submitted to pool p in a run of
\* submissions made back-to-back from a pool that was AllIdle: 0 for the
\* first of the run, i for the one that follows i submissions of the run
\* none of which has settled, -1 outside such a run.
BurstIndex(h, p) ==
    LET n == Len(h.tasks)
    IN IF AllIdle(h.pools[p]) THEN 0
       ELSE IF /\ n > 0
               /\ h.tasks[n].burst >= 0
               /\ \A t \in (n - h.tasks[n].burst)..n :
                      /\ h.tasks[t].state \in {"queued", "posted"}
                      /\ asyncMatchers[h.tasks[t].matcher].workerPool = p
       THEN h.tasks[n].burst + 1
       ELSE -1

\* queryResultsForSourceTexts, called by the findMatches of matcher m.
\* calledWith records the source texts of the matcher at the call.
queryResultsForSourceTexts(h, p, m) ==
    LET task == [matcher |-> m, state |-> "queued", worker |-> 0,
                 calledWith |-> asyncMatchers[m].sourceTexts,
                 result |-> {}, repliedFor |-> 0]
        id == Len(h.tasks) + 1
    IN WithValue(LAMBDA queued : runNextTask(queued, p),
                 [h EXCEPT !.tasks = Append(@, task),
                           !.pools[p].taskQueue = Append(@, id)])

\* The resolve function of a task, called with a value: a promise settles
\* once, later calls change nothing.
ResolveTask(ts, task, result, repliedFor) ==
    IF ts[task].state \in {"resolved", "rejected"}
    THEN ts
    ELSE [ts EXCEPT ![task].state = "resolved",
                    ![task].result = result,
                    ![task].repliedFor = repliedFor]

\* The resolve function of a task, called with Promise.reject(err).
RejectTask(ts, task) ==
    IF ts[task].state \in {"resolved", "rejected"}
    THEN ts
    ELSE [ts EXCEPT ![task].state = "rejected"]

\* The "message" handler without its call of _runNextTask.
OnMessage_NoRunNextTask(h, w) ==
    LET request == Head(h.workers[w].inbox)
        result == WorkerResults(h.workers[w].queriesAndPatterns,
                                request.sourceTexts)
        p == h.workers[w].pool
    IN [h EXCEPT
           !.tasks = ResolveTask(@, h.workers[w].taskResolver,
                                 result, request.sentFor),
           !.workers[w].inbox = Tail(@),
           !.pools[p].idleWorkers = Append(@, w)]

\* The "message" handler without its push into idleWorkers.
OnMessage_NoPushIdle(h, w) ==
    LET request == Head(h.workers[w].inbox)
        result == WorkerResults(h.workers[w].queriesAndPatterns,
                                request.sourceTexts)
        p == h.workers[w].pool
    IN WithValue(LAMBDA resolved : runNextTask(resolved, p),
                 [h EXCEPT
                     !.tasks = ResolveTask(@, h.workers[w].taskResolver,
                                           result, request.sentFor),
                     !.workers[w].inbox = Tail(@)])

\* The "message" handler if it pushed the worker into idleWorkers twice.
OnMessage_PushTwice(h, w) ==
    LET request == Head(h.workers[w].inbox)
        result == WorkerResults(h.workers[w].queriesAndPatterns,
                                request.sourceTexts)
        p == h.workers[w].pool
    IN WithValue(LAMBDA resolved : runNextTask(resolved, p),
                 [h EXCEPT
                     !.tasks = ResolveTask(@, h.workers[w].taskResolver,
                                           result, request.sentFor),
                     !.workers[w].inbox = Tail(@),
                     !.pools[p].idleWorkers = Append(Append(@, w), w)])

\* worker.on("message"): the worker w answers the first request of its inbox.
OnMessage(h, w) ==
    LET request == Head(h.workers[w].inbox)
        result == WorkerResults(h.workers[w].queriesAndPatterns,
                                request.sourceTexts)
        p == h.workers[w].pool
    IN WithValue(LAMBDA resolved : runNextTask(resolved, p),
                 [h EXCEPT
                     !.tasks = ResolveTask(@, h.workers[w].taskResolver,
                                           result, request.sentFor),
                     !.workers[w].inbox = Tail(@),
                     !.pools[p].idleWorkers = Append(@, w)])

\* The "error" handler if it pushed the worker into idleWorkers.
OnError_PushIdle(h, w) ==
    [h EXCEPT !.tasks = RejectTask(@, h.workers[w].taskResolver),
              !.workers[w].inbox = <<>>,
              !.workers[w].state = "error",
              !.pools[h.workers[w].pool].idleWorkers = Append(@, w)]

\* worker.on("error"): the worker has terminated.
OnError(h, w) ==
    [h EXCEPT !.tasks = RejectTask(@, h.workers[w].taskResolver),
              !.workers[w].inbox = <<>>,
              !.workers[w].state = "error"]

\* terminateAllWorkers
terminateAllWorkers(h, p) ==
    [h EXCEPT
        !.workers = [w \in DOMAIN h.workers |->
                        IF \E i \in 1..Len(h.pools[p].workers) :
                               h.pools[p].workers[i] = w
                        THEN [h.workers[w] EXCEPT !.state = "terminated",
                                                  !.inbox = <<>>]
                        ELSE h.workers[w]],
        !.pools[p].workers = <<>>,
        !.pools[p].idleWorkers = <<>>]

Heap == [pools |-> pools, workers |-> workers, tasks |-> tasks]

SetHeap(h) ==
    /\ pools' = h.pools
    /\ workers' = h.workers
    /\ tasks' = h.tasks

\* ------------------------------------------------------------------------
\* The calls on the asynchronous QueryCompiler and its AsyncQueryMatchers
\* ------------------------------------------------------------------------

Call(op, threw, m) == [op |-> op, threw |-> threw, matcher |-> m]

\* if (this.workerPool) throw new Error("addQuery cannot be called ...")
AddQueryRefused(pool) == pool # 0

\* async QueryCompiler.addQuery(query)
AsyncAddQuery(query) ==
    /\ IF AddQueryRefused(workerPool)
       THEN /\ lastCall' = Call("addQuery", TRUE, 0)
            /\ UNCHANGED compilerVars
       ELSE IF ~HasQuery(queriesAndPatterns, query)
               /\ compileQueryThrows(query)
       THEN /\ sharedRegExps' = sharedRegExps \cup CompiledBeforeThrow(query)
            /\ lastCall' = Call("addQuery", TRUE, 0)
            /\ UNCHANGED queriesAndPatterns
       ELSE /\ queriesAndPatterns' = addQuery(queriesAndPatterns, query)
            /\ sharedRegExps' =
                   addQueryRegExps(queriesAndPatterns, sharedRegExps, query)
            /\ lastCall' = Call("addQuery", FALSE, 0)
    /\ UNCHANGED <<syncMatchers, numThreads, filterVars, queueVars, asyncVars>>

\* new AsyncQueryMatcher(workerPool)
NewAsyncMatcher(p) ==
    [workerPool |-> p, matchedQueriesNull |-> TRUE, matchedQueries |-> {},
     sourceTexts |-> {}]

\* async QueryCompiler.newQueryMatcher()
AsyncNewQueryMatcher ==
    /\ Len(asyncMatchers) < MaxMatchers
    /\ IF workerPool = 0
       THEN /\ pools' = Append(pools, NewPool)
            /\ workerPool' = Len(pools) + 1
       ELSE UNCHANGED <<pools, workerPool>>
    /\ asyncMatchers' = Append(asyncMatchers, NewAsyncMatcher(workerPool'))
    /\ lastCall' = NoCall
    /\ UNCHANGED <<compilerVars, syncMatchers, numThreads, filterVars, queueVars, workers, tasks>>

\* async QueryCompiler.destroy()
Destroy ==
    /\ IF workerPool # 0
       THEN /\ \E h \in {terminateAllWorkers(Heap, workerPool)} : SetHeap(h)
            /\ workerPool' = 0
       ELSE UNCHANGED <<pools, workers, tasks, workerPool>>
    /\ lastCall' = NoCall
    /\ UNCHANGED <<compilerVars, syncMatchers, numThreads, filterVars, queueVars, asyncMatchers>>

\* AsyncQueryMatcher.addSource(sourceText)
AsyncAddSource(m, sourceText) ==
    /\ m \in DOMAIN asyncMatchers
    /\ asyncMatchers' =
           [asyncMatchers EXCEPT ![m].sourceTexts = @ \cup {sourceText}]
    /\ lastCall' = NoCall
    /\ UNCHANGED <<compilerVars, syncMatchers, numThreads, filterVars, queueVars, workerPool, pools,
                   workers, tasks>>

\* AsyncQueryMatcher.findMatches(), up to its await.
AsyncFindMatches(m) ==
    /\ m \in DOMAIN asyncMatchers
    /\ Len(tasks) < MaxTasks
    /\ \E h \in {queryResultsForSourceTexts(Heap, asyncMatchers[m].workerPool,
                                               m)} : SetHeap(h)
    /\ lastCall' = NoCall
    /\ UNCHANGED <<compilerVars, syncMatchers, numThreads, filterVars, queueVars, workerPool,
                   asyncMatchers>>

\* this.matchedQueries = await ...: the assignment that follows the await
\* of the findMatches call that submitted task, once the task is resolved.
AssignResults(ms, ts, task) ==
    [ms EXCEPT ![ts[task].matcher].matchedQueriesNull = FALSE,
               ![ts[task].matcher].matchedQueries = ts[task].result]

\* A worker answers: its "message" handler runs, and the findMatches call
\* whose promise it resolves continues.
WorkerMessage(w) ==
    /\ w \in DOMAIN workers
    /\ workers[w].state = "alive"
    /\ workers[w].inbox # <<>>
    /\ \E h \in {OnMessage(Heap, w)} :
           LET task == workers[w].taskResolver
           IN /\ SetHeap(h)
              /\ asyncMatchers' =
                     IF tasks[task].state # "resolved"
                        /\ h.tasks[task].state = "resolved"
                     THEN AssignResults(asyncMatchers, h.tasks, task)
                     ELSE asyncMatchers
    /\ lastCall' = NoCall
    /\ UNCHANGED <<compilerVars, syncMatchers, numThreads, filterVars, queueVars, workerPool>>

\* A worker fails while it works on a request: its "error" handler runs.
\* The findMatches call whose promise is rejected throws at its await, so
\* matchedQueries is not assigned.
WorkerError(w) ==
    /\ w \in DOMAIN workers
    /\ workers[w].state = "alive"
    /\ workers[w].inbox # <<>>
    /\ \E h \in {OnError(Heap, w)} : SetHeap(h)
    /\ lastCall' = NoCall
    /\ UNCHANGED <<compilerVars, syncMatchers, numThreads, filterVars, queueVars, workerPool,
                   asyncMatchers>>

\* The test of getMatchedResults if it took an empty set for no results.
ResultsNotReady_Empty(matcher) == matcher.matchedQueries = {}

\* if (!this.matchedQueries) throw new Error("Attempted to get results ...")
ResultsNotReady(matcher) == matcher.matchedQueriesNull

\* AsyncQueryMatcher.getMatchedResults()
AsyncGetMatchedResults(m) ==
    /\ m \in DOMAIN asyncMatchers
    /\ lastCall' = Call("getMatchedResults", ResultsNotReady(asyncMatchers[m]), m)
    /\ UNCHANGED <<compilerVars, syncMatchers, numThreads, filterVars, queueVars, asyncVars>>

Next ==
    \/ \E query \in AsyncQueries : AsyncAddQuery(query)
    \/ AsyncNewQueryMatcher
    \/ Destroy
    \/ \E m \in 1..MaxMatchers, sourceText \in AsyncSources :
           AsyncAddSource(m, sourceText)
    \/ \E m \in 1..MaxMatchers : AsyncFindMatches(m)
    \/ \E w \in 1..MaxTasks : WorkerMessage(w)
    \/ \E w \in 1..MaxTasks : WorkerError(w)
    \/ \E m \in 1..MaxMatchers : AsyncGetMatchedResults(m)

Spec == Init /\ [][Next]_vars

\* The pool under task submissions, worker replies and worker errors: the
\* compiler vends matchers and is never destroyed.
PoolNext ==
    \/ \E query \in AsyncQueries : AsyncAddQuery(query)
    \/ AsyncNewQueryMatcher
    \/ \E m \in 1..MaxMatchers, sourceText \in AsyncSources :
           AsyncAddSource(m, sourceText)
    \/ \E m \in 1..MaxMatchers : AsyncFindMatches(m)
    \/ \E w \in 1..MaxTasks : WorkerMessage(w)
    \/ \E w \in 1..MaxTasks : WorkerError(w)

PoolSpec == Init /\ [][PoolNext]_vars

\* The pool and the calls on the matchers it serves, getMatchedResults
\* included.
FacadeNext ==
    \/ PoolNext
    \/ \E m \in 1..MaxMatchers : AsyncGetMatchedResults(m)

FacadeSpec == Init /\ [][FacadeNext]_vars

\* The pool when no worker fails: tasks are submitted and workers answer.
\* No query is added, so every reply carries an empty result.
LiveNext ==
    \/ AsyncNewQueryMatcher
    \/ \E m \in 1..MaxMatchers, sourceText \in AsyncSources :
           AsyncAddSource(m, sourceText)
    \/ \E m \in 1..MaxMatchers : AsyncFindMatches(m)
    \/ \E w \in 1..MaxTasks : WorkerMessage(w)

\* A worker that was posted a request answers it: the worker thread runs on
\* its own and its message is delivered by the event loop.
LiveSpec ==
    /\ Init
    /\ [][LiveNext]_vars
    /\ \A w \in 1..MaxTasks : WF_vars(WorkerMessage(w))

\* AsyncQueryMatcher.findMatches(), up to its await, with a record on the
\* task of its place in a run of back-to-back submissions.
BurstFindMatches(m) ==
    /\ m \in DOMAIN asyncMatchers
    /\ Len(tasks) < MaxTasks
    /\ \E h \in {queryResultsForSourceTexts(Heap, asyncMatchers[m].workerPool,
                                               m)} :
       \E i \in {BurstIndex(Heap, asyncMatchers[m].workerPool)} :
           /\ pools' = h.pools
           /\ workers' = h.workers
           /\ tasks' = [h.tasks EXCEPT ![Len(h.tasks)] = [burst |-> i] @@ @]
    /\ lastCall' = NoCall
    /\ UNCHANGED <<compilerVars, syncMatchers, numThreads, filterVars, queueVars, workerPool,
                   asyncMatchers>>

\* The pool under submissions whose place in a run is recorded, worker
\* replies and worker errors.
BurstNext ==
    \/ AsyncNewQueryMatcher
    \/ \E m \in 1..MaxMatchers, sourceText \in AsyncSources :
           AsyncAddSource(m, sourceText)
    \/ \E m \in 1..MaxMatchers : BurstFindMatches(m)
    \/ \E w \in 1..MaxTasks : WorkerMessage(w)
    \/ \E w \in 1..MaxTasks : WorkerError(w)

BurstSpec == Init /\ [][BurstNext]_vars

\* The pool under submissions, worker replies, worker errors and destroy():
\* a matcher vended before destroy() keeps the pool it was vended with.
TeardownNext ==
    \/ AsyncNewQueryMatcher
    \/ Destroy
    \/ \E m \in 1..MaxMatchers : AsyncFindMatches(m)
    \/ \E w \in 1..MaxTasks : WorkerMessage(w)
    \/ \E w \in 1..MaxTasks : WorkerError(w)

TeardownSpec == Init /\ [][TeardownNext]_vars

\* ------------------------------------------------------------------------
\* The calls on the synchronous QueryCompiler and its QueryMatchers
\* ------------------------------------------------------------------------

\* QueryCompiler.addQuery(query).  The call throws what compileQuery throws;
\* the map is set after compileQuery has returned.
QcAddQuery(query) ==
    IF ~HasQuery(queriesAndPatterns, query) /\ compileQueryThrows(query)
    THEN /\ sharedRegExps' = sharedRegExps \cup CompiledBeforeThrow(query)
         /\ lastCall' = Call("addQuery", TRUE, 0)
         /\ UNCHANGED <<queriesAndPatterns, syncMatchers, numThreads,
                        filterVars, queueVars, asyncVars>>
    ELSE /\ queriesAndPatterns' = addQuery(queriesAndPatterns, query)
         /\ sharedRegExps' =
                addQueryRegExps(queriesAndPatterns, sharedRegExps, query)
         /\ UNCHANGED <<syncMatchers, numThreads, filterVars, queueVars, asyncVars,
                        lastCall>>

\* QueryCompiler.newQueryMatcher(): the matcher refers to the compiler's map.
QcNewQueryMatcher ==
    /\ Len(syncMatchers) < MaxSyncMatchers
    /\ syncMatchers' =
           Append(syncMatchers, [matchedQueries |-> {}, sourceTexts |-> {}])
    /\ UNCHANGED <<compilerVars, numThreads, filterVars, queueVars, asyncVars, lastCall>>

\* QueryMatcher.addSource(sourceText)
QmAddSource(m, sourceText) ==
    /\ m \in DOMAIN syncMatchers
    /\ syncMatchers' =
           [syncMatchers EXCEPT ![m].sourceTexts = addSource(@, sourceText)]
    /\ UNCHANGED <<compilerVars, numThreads, filterVars, queueVars, asyncVars, lastCall>>

\* findMatches if matchedQueries were one Set kept by the compiler: what the
\* call on matcher m finds is added to the matched set of every matcher.
QmFindMatches_SharedSet(m) ==
    /\ m \in DOMAIN syncMatchers
    /\ syncMatchers' =
           [n \in DOMAIN syncMatchers |->
               [syncMatchers[n] EXCEPT
                   !.matchedQueries =
                       @ \cup findMatches(queriesAndPatterns,
                                          syncMatchers[m].matchedQueries,
                                          syncMatchers[m].sourceTexts)]]
    /\ UNCHANGED <<compilerVars, numThreads, filterVars, queueVars, asyncVars, lastCall>>

\* QueryMatcher.findMatches()
QmFindMatches(m) ==
    /\ m \in DOMAIN syncMatchers
    /\ syncMatchers' =
           [syncMatchers EXCEPT
               ![m].matchedQueries =
                   findMatches(queriesAndPatterns, @, syncMatchers[m].sourceTexts)]
    /\ UNCHANGED <<compilerVars, numThreads, filterVars, queueVars, asyncVars, lastCall>>

SyncNext ==
    \/ \E query \in ModelQueries : QcAddQuery(query)
    \/ QcNewQueryMatcher
    \/ \E m \in 1..MaxSyncMatchers, sourceText \in ModelSources :
           QmAddSource(m, sourceText)
    \/ \E m \in 1..MaxSyncMatchers : QmFindMatches(m)

SyncSpec == Init /\ [][SyncNext]_vars

\* One synchronous matcher of a compiler that is given the queries of
\* MatchQueries in any order, and the texts of MatchSources.
MatchNext ==
    \/ \E query \in MatchQueries : QcAddQuery(query)
    \/ Len(syncMatchers) = 0 /\ QcNewQueryMatcher
    \/ \E sourceText \in MatchSources : QmAddSource(1, sourceText)
    \/ QmFindMatches(1)

MatchSpec == Init /\ [][MatchNext]_vars

\* QueryCompiler.addQuery(query) with the RegExp objects told apart: the
\* entries of sharedRegExps are RegExp objects, and the entry of a query
\* holds the objects of its patterns next to the patterns.
InternAddQuery(query) ==
    IF HasQuery(queriesAndPatterns, query)
    THEN UNCHANGED vars
    ELSE \E made \in {CompileObjects(sharedRegExps,
                                      Flatten(compileQuery(query)), 1)} :
            /\ sharedRegExps' = made.shared
            /\ IF made.threw
               THEN /\ lastCall' = Call("addQuery", TRUE, 0)
                    /\ UNCHANGED queriesAndPatterns
               ELSE /\ queriesAndPatterns' =
                           Append(queriesAndPatterns,
                                  [query |-> query,
                                   compiledPatterns |-> compileQuery(query),
                                   objects |-> made.objects])
                    /\ UNCHANGED lastCall
            /\ UNCHANGED <<syncMatchers, numThreads, filterVars, queueVars,
                           asyncVars>>

\* A compiler that is given the queries of InternQueries in any order.
InternNext == \E query \in InternQueries : InternAddQuery(query)

InternSpec == Init /\ [][InternNext]_vars

\* A matcher of a compiler with the query "t.c", given "=chrome.t" and
\* then one text of AliasTexts.
AliasNext ==
    \/ queriesAndPatterns = <<>> /\ QcAddQuery(QueryTC)
    \/ queriesAndPatterns # <<>> /\ Len(syncMatchers) = 0
           /\ QcNewQueryMatcher
    \/ QmAddSource(1, SourceHostT)
    \/ \E text \in AliasTexts :
           /\ Len(syncMatchers) = 1
           /\ syncMatchers[1].sourceTexts = {SourceHostT}
           /\ QmAddSource(1, text)
    \/ QmFindMatches(1)

AliasSpec == Init /\ [][AliasNext]_vars

\* The first addQuery call on a new compiler, for the queries of
\* CompileQueries.
CompileNext ==
    /\ queriesAndPatterns = <<>>
    /\ lastCall = NoCall
    /\ \E query \in CompileQueries : QcAddQuery(query)

CompileSpec == Init /\ [][CompileNext]_vars

\* The Set objects behind a QueryMatcher.  In the calls below the record of
\* a matcher has three more fields: sets, the Set objects created for its
\* matchedQueries field in the order they were created, each with its
\* members; ref, the index in sets of the object this.matchedQueries
\* refers to; and returned, what the calls of getMatchedResults returned:
\* the object, and the members it had when it was returned.

\* new QueryMatcher(queriesAndPatterns): this.matchedQueries = new Set()
RefNewQueryMatcher ==
    /\ Len(syncMatchers) < MaxSyncMatchers
    /\ syncMatchers' =
           Append(syncMatchers, [matchedQueries |-> {}, sourceTexts |-> {},
                                 sets |-> <<{}>>, ref |-> 1, returned |-> {}])
    /\ UNCHANGED <<compilerVars, numThreads, filterVars, queueVars, asyncVars, lastCall>>

\* findMatches if it assigned a new Set with the old and the new members to
\* this.matchedQueries.
AddMatched_NewSet(matcher, found) ==
    [matcher EXCEPT !.matchedQueries = found,
                    !.sets = Append(@, found),
                    !.ref = Len(matcher.sets) + 1]

\* this.matchedQueries.add(query), for the queries findMatches finds: the
\* object this.matchedQueries refers to is changed in place.
AddMatched(matcher, found) ==
    [matcher EXCEPT !.matchedQueries = found,
                    !.sets[matcher.ref] = found]

\* QueryMatcher.findMatches()
RefFindMatches(m) ==
    /\ m \in DOMAIN syncMatchers
    /\ syncMatchers' =
           [syncMatchers EXCEPT
               ![m] = AddMatched(@, findMatches(queriesAndPatterns,
                                                @.matchedQueries,
                                                @.sourceTexts))]
    /\ UNCHANGED <<compilerVars, numThreads, filterVars, queueVars, asyncVars, lastCall>>

\* QueryMatcher.getMatchedResults(): return this.matchedQueries
RefGetMatchedResults(m) ==
    /\ m \in DOMAIN syncMatchers
    /\ syncMatchers' =
           [syncMatchers EXCEPT
               ![m].returned =
                   @ \cup {[ref |-> syncMatchers[m].ref,
                            members |-> syncMatchers[m].sets[syncMatchers[m].ref]]}]
    /\ UNCHANGED <<compilerVars, numThreads, filterVars, queueVars, asyncVars, lastCall>>

\* One matcher of a compiler, with the objects its calls return.
RefNext ==
    \/ \E query \in ModelQueries : QcAddQuery(query)
    \/ Len(syncMatchers) = 0 /\ RefNewQueryMatcher
    \/ \E sourceText \in ModelSources : QmAddSource(1, sourceText)
    \/ RefFindMatches(1)
    \/ RefGetMatchedResults(1)

RefSpec == Init /\ [][RefNext]_vars

\* The asynchronous compiler with a matcher of each flavor: an
\* AsyncQueryMatcher of its pool, and a QueryMatcher vended by its
\* qcInternal, which reads the same map of queries.
MixedNext ==
    \/ \E query \in ModelQueries : AsyncAddQuery(query)
    \/ Len(syncMatchers) = 0 /\ QcNewQueryMatcher
    \/ \E sourceText \in ModelSources : QmAddSource(1, sourceText)
    \/ QmFindMatches(1)
    \/ Len(asyncMatchers) = 0 /\ AsyncNewQueryMatcher
    \/ \E sourceText \in AsyncSources : AsyncAddSource(1, sourceText)
    \/ Len(tasks) < MaxMixedTasks /\ AsyncFindMatches(1)
    \/ \E w \in 1..MaxTasks : WorkerMessage(w)

MixedSpec == Init /\ [][MixedNext]_vars

\* ------------------------------------------------------------------------
\* bin/filter: main and readLines
\*
\* Line i is the i-th line of the input.  Its async function (the one main
\* assigns to pendingPromise) awaits filterCmd.filter, then previousPromise,
\* then writes; lines[i].state is "filter" or "awaitPrevious" while it is at
\* one of the two awaits, and "fulfilled" or "rejected" once its promise has
\* settled.
\* ------------------------------------------------------------------------

\* The state of promise k: 0 is Promise.resolve(), i the promise of line i.
PromiseState(k) ==
    IF k = 0 THEN "fulfilled"
    ELSE IF lines[k].state \in {"fulfilled", "rejected"} THEN lines[k].state
    ELSE "pending"

\* reject(e) of the promise readLines awaits, and rl.close(): main throws at
\* its await of readLines unless the promise has resolved already.
RejectReadLines ==
    /\ rl' = "closed"
    /\ mainState' = IF mainState = "readLines" THEN "failed" ELSE mainState

\* What an input line is to filterCmd.filter: the line of an extension that
\* matches or of one that does not; a line with a driver-level error (not
\* an extension directory, a directory or a file that cannot be read, an
\* invalid manifest); a line on which the engine fails (findMatches
\* rejects).
LineKinds == {"match", "noMatch", "driverError", "engineError"}

\* filter if it let the error of a line go instead of catching it.
filter_NoCatch(kind) ==
    [rejects |-> kind \in {"driverError", "engineError"},
     wantLine |-> kind = "match", warnings |-> FALSE]

\* filterCmd.filter(logger, line): whether the promise it returns rejects,
\* the value it resolves to and whether logger.warn was called.  Every
\* filter returns false after the warning of an error it has caught.
filter(kind) ==
    [rejects |-> kind = "engineError",
     wantLine |-> kind = "match", warnings |-> kind = "driverError"]

\* rl.on("line"): onLine(line) up to the await of filterCmd.filter.
OnLine(kind) ==
    /\ rl = "open"
    /\ Len(lines) < MaxLines
    /\ lines' = Append(lines, [state |-> "filter", wantLine |-> FALSE,
                               warnings |-> FALSE, kind |-> kind,
                               previousPromise |-> pendingPromise])
    /\ pendingPromise' = Len(lines) + 1
    /\ UNCHANGED <<stdout, stderr, rl, mainState, seenExts, finderVars,
                   queueVars>>

\* filterCmd.filter(logger, line) resolves to wantLine, having logged
\* warnings or not; the async function goes on to await previousPromise.
FilterResolves(i, wantLine, warnings) ==
    /\ i \in DOMAIN lines
    /\ lines[i].state = "filter"
    /\ lines' = [lines EXCEPT ![i].state = "awaitPrevious",
                              ![i].wantLine = wantLine,
                              ![i].warnings = warnings]
    /\ UNCHANGED <<pendingPromise, stdout, stderr, rl, mainState, seenExts, finderVars,
                   queueVars>>

\* filterCmd.filter(logger, line) rejects: the async function throws, and so
\* does onLine at its await of pendingPromise.
FilterRejects(i) ==
    /\ i \in DOMAIN lines
    /\ lines[i].state = "filter"
    /\ lines' = [lines EXCEPT ![i].state = "rejected"]
    /\ RejectReadLines
    /\ UNCHANGED <<pendingPromise, stdout, stderr, seenExts, finderVars,
                   queueVars>>

\* The async function of line i writes at once, whatever previousPromise is.
PreviousSettled_NoAwait(i) == TRUE

\* await previousPromise returns or throws.
PreviousSettled(i) == PromiseState(lines[i].previousPromise) # "pending"

\* The async function of line i after await previousPromise: console.log of
\* the output line if wantLine, console.warn of the warnings.
AfterPreviousPromise(i) ==
    /\ i \in DOMAIN lines
    /\ lines[i].state = "awaitPrevious"
    /\ PreviousSettled(i)
    /\ IF PromiseState(lines[i].previousPromise) = "rejected"
       THEN /\ lines' = [lines EXCEPT ![i].state = "rejected"]
            /\ RejectReadLines
            /\ UNCHANGED <<stdout, stderr>>
       ELSE /\ lines' = [lines EXCEPT ![i].state = "fulfilled"]
            /\ stdout' = IF lines[i].wantLine THEN Append(stdout, i)
                          ELSE stdout
            /\ stderr' = IF lines[i].warnings THEN Append(stderr, i)
                          ELSE stderr
            /\ UNCHANGED <<rl, mainState>>
    /\ UNCHANGED <<pendingPromise, seenExts, finderVars,
                   queueVars>>

\* rl.once("close", resolve) at the end of the input: readLines returns and
\* main awaits pendingPromise.
EndOfInput ==
    /\ rl = "open"
    /\ rl' = "closed"
    /\ mainState' = "awaitPending"
    /\ UNCHANGED <<lines, pendingPromise, stdout, stderr, seenExts, finderVars,
                   queueVars>>

\* main after await pendingPromise: filterCmd.cleanupAndDestroy() and
\* return 0, or main throws.
AfterPendingPromise ==
    /\ mainState = "awaitPending"
    /\ PromiseState(pendingPromise) # "pending"
    /\ mainState' = IF PromiseState(pendingPromise) = "fulfilled"
                    THEN "cleanup" ELSE "failed"
    /\ UNCHANGED <<lines, pendingPromise, stdout, stderr, rl, seenExts, finderVars,
                   queueVars>>

FilterNext ==
    \/ \E kind \in LineKinds : OnLine(kind)
    \/ \E i \in 1..MaxLines :
           /\ i \in DOMAIN lines
           /\ ~filter(lines[i].kind).rejects
           /\ FilterResolves(i, filter(lines[i].kind).wantLine,
                             filter(lines[i].kind).warnings)
    \/ \E i \in 1..MaxLines :
           /\ i \in DOMAIN lines
           /\ filter(lines[i].kind).rejects
           /\ FilterRejects(i)
    \/ \E i \in 1..MaxLines : AfterPreviousPromise(i)
    \/ EndOfInput
    \/ AfterPendingPromise

FilterSpec == Init /\ [][FilterNext]_vars

\* The input ends, every call of filterCmd.filter settles (its reads and
\* its worker finish) and the event loop runs the continuations that are
\* ready.
FilterLiveSpec ==
    /\ FilterSpec
    /\ WF_vars(EndOfInput)
    /\ WF_vars(AfterPendingPromise)
    /\ \A i \in 1..MaxLines :
           /\ WF_vars(FilterRejects(i))
           /\ WF_vars(AfterPreviousPromise(i))
           /\ WF_vars(\E wantLine \in BOOLEAN, warnings \in BOOLEAN :
                          FilterResolves(i, wantLine, warnings))

\* ------------------------------------------------------------------------
\* bin/filter: the api-usage filter under main
\*
\* A line carries what the file system holds for it: extdir is the extension
\* directory getExtensionDirectory resolves it to ("" for none), readable
\* says that the directory and its files can be read, files are the texts
\* of its .js files.  accepted says that the filter call of the line put
\* extdir into seenExts, matcher is the matcher its callback made (0 for
\* none).  ioTaskQueue admits 500 callbacks at a time, so the callback of an
\* accepted line starts within the filter call.
\* ------------------------------------------------------------------------

ExtDirs == {"a", "b"}

ApiLines ==
    {[extdir |-> "", readable |-> FALSE, files |-> {}]}
        \cup {[extdir |-> d, readable |-> FALSE, files |-> {}] : d \in ExtDirs}
        \cup {[extdir |-> d, readable |-> TRUE, files |-> f] :
                  d \in ExtDirs, f \in SUBSET AsyncSources}

\* The test of seenExts if it found no directory.
Seen_Never(seen, extdir) == FALSE

\* this.seenExts.has(extdir)
Seen(seen, extdir) == extdir \in seen

\* rl.on("line") for the api-usage filter: onLine(line) up to the first
\* await inside filterCmd.filter.
ApiOnLine(input) ==
    /\ rl = "open"
    /\ Len(lines) < MaxApiLines
    /\ LET accepted == input.extdir # "" /\ ~Seen(seenExts, input.extdir)
       IN /\ lines' = Append(lines,
                 [state |-> "filter", wantLine |-> FALSE, warnings |-> FALSE,
                  previousPromise |-> pendingPromise,
                  extdir |-> input.extdir, readable |-> input.readable,
                  files |-> input.files, accepted |-> accepted,
                  matcher |-> 0])
          /\ seenExts' = IF accepted THEN seenExts \cup {input.extdir}
                         ELSE seenExts
    /\ pendingPromise' = Len(lines) + 1
    /\ UNCHANGED <<stdout, stderr, rl, mainState, finderVars, queueVars>>

\* filter returns false: the line is no extension directory (a warning),
\* its directory was seen before, or the directory or a file of it cannot
\* be read (a warning).
ApiReturnsFalse(i) ==
    /\ i \in DOMAIN lines
    /\ ~(lines[i].accepted /\ lines[i].readable)
    /\ FilterResolves(i, FALSE, lines[i].extdir = "" \/ lines[i].accepted)

\* The callback of line i up to findMatches: this.qc.newQueryMatcher() and
\* qm.addSource for every file read.
ApiNewQueryMatcher(i) ==
    /\ i \in DOMAIN lines
    /\ lines[i].state = "filter"
    /\ lines[i].accepted /\ lines[i].readable
    /\ lines[i].matcher = 0
    /\ IF workerPool = 0
       THEN /\ pools' = Append(pools, NewPool)
            /\ workerPool' = Len(pools) + 1
       ELSE UNCHANGED <<pools, workerPool>>
    /\ asyncMatchers' =
           Append(asyncMatchers,
                  [NewAsyncMatcher(workerPool') EXCEPT
                      !.sourceTexts = lines[i].files])
    /\ lines' = [lines EXCEPT ![i].matcher = Len(asyncMatchers) + 1]
    /\ lastCall' = NoCall
    /\ UNCHANGED <<pendingPromise, stdout, stderr, rl, mainState, seenExts,
                   compilerVars, syncMatchers, numThreads, workers, tasks,
                   queueVars>>

\* The tasks that the findMatches calls of matcher m submitted.
TasksOf(m) == {t \in DOMAIN tasks : tasks[t].matcher = m}

\* qm.findMatches() in the callback of line i, up to its await.
ApiFindMatches(i) ==
    /\ i \in DOMAIN lines
    /\ lines[i].state = "filter"
    /\ lines[i].matcher # 0
    /\ TasksOf(lines[i].matcher) = {}
    /\ AsyncFindMatches(lines[i].matcher)

\* The callback of line i if it did not await findMatches.
FindMatchesSettled_NoAwait(i) == TasksOf(lines[i].matcher) # {}

\* await qm.findMatches() returns or throws.
FindMatchesSettled(i) ==
    \E t \in TasksOf(lines[i].matcher) : ~(tasks[t].state \in {"queued", "posted"})

\* The callback of line i after await qm.findMatches(): it returns whether
\* getMatchedResults() holds a query, or throws what findMatches threw.
ApiAfterFindMatches(i) ==
    /\ i \in DOMAIN lines
    /\ lines[i].state = "filter"
    /\ lines[i].matcher # 0
    /\ FindMatchesSettled(i)
    /\ IF \E t \in TasksOf(lines[i].matcher) : tasks[t].state = "rejected"
       THEN FilterRejects(i)
       ELSE FilterResolves(i, asyncMatchers[lines[i].matcher].matchedQueries
                                  # {}, FALSE)

\* filterCmd.cleanupAndDestroy() and return 0.
CleanupAndDestroy ==
    /\ mainState = "cleanup"
    /\ mainState' = "returned"
    /\ IF workerPool # 0
       THEN /\ \E h \in {terminateAllWorkers(Heap, workerPool)} : SetHeap(h)
            /\ workerPool' = 0
       ELSE UNCHANGED <<pools, workers, tasks, workerPool>>
    /\ lastCall' = NoCall
    /\ UNCHANGED <<lines, pendingPromise, stdout, stderr, rl, seenExts,
                   compilerVars, syncMatchers, numThreads, asyncMatchers,
                   queueVars>>

\* main with the api-usage filter: the constructor adds the queries before
\* the first line is read.
ApiUsageNext ==
    \/ lines = <<>> /\ rl = "open" /\ \E query \in AsyncQueries : AsyncAddQuery(query)
    \/ \E input \in ApiLines : ApiOnLine(input)
    \/ \E i \in 1..MaxApiLines : ApiReturnsFalse(i)
    \/ \E i \in 1..MaxApiLines : ApiNewQueryMatcher(i)
    \/ \E i \in 1..MaxApiLines : ApiFindMatches(i)
    \/ \E w \in 1..MaxTasks : WorkerMessage(w)
    \/ \E w \in 1..MaxTasks : WorkerError(w)
    \/ \E i \in 1..MaxApiLines : ApiAfterFindMatches(i)
    \/ \E i \in 1..MaxApiLines : AfterPreviousPromise(i)
    \/ EndOfInput
    \/ AfterPendingPromise
    \/ CleanupAndDestroy

ApiUsageSpec == Init /\ [][ApiUsageNext]_vars

\* ------------------------------------------------------------------------
\* ConcurrentTaskQueue (helpers/concurrent-task-queue.js)
\*
\* A task of ioTasks is "queued" while it is in this.tasks, "running" once
\* _runNextTask has called its runTaskCallback, "returned" when the promise
\* of the callback has settled and the _runNextTask call that awaits it has
\* not resumed yet, and "resolved" or "rejected" once that call has settled
\* the promise queueTask returned.
\* ------------------------------------------------------------------------

\* What runTaskCallback does: it returns a promise that fulfils, one that
\* rejects, or it throws before it returns.
CallbackKinds == {"fulfils", "rejects", "throws"}

\* new ConcurrentTaskQueue(max)
NewConcurrentTaskQueue(max) ==
    /\ ~ioTaskQueue.made
    /\ ioTaskQueue' = [made |-> TRUE, max |-> max, size |-> 0, tasks |-> <<>>]
    /\ UNCHANGED <<ioTasks, finderVars, filterVars>>

\* The test of the loop without the ceiling.
MayRunTask_NoCeiling(q) == Len(q.tasks) > 0

\* this.size < this.max && this.tasks.length
MayRunTask(q) == q.size < q.max /\ Len(q.tasks) > 0

RECURSIVE RunNextTask_Pop(_)
\* _runNextTask with this.tasks.pop() for shift(): the task queued last is
\* started first.
RunNextTask_Pop(c) ==
    IF ~MayRunTask(c.q) THEN c
    ELSE LET task == c.q.tasks[Len(c.q.tasks)]
             shifted == [c.q EXCEPT !.tasks = SubSeq(@, 1, Len(@) - 1),
                                    !.size = @ + 1]
         IN IF c.ts[task].kind = "throws"
            THEN RunNextTask_Pop([q |-> [shifted EXCEPT !.size = @ - 1],
                                  ts |-> [c.ts EXCEPT
                                             ![task].state = "rejected"]])
            ELSE [q |-> shifted,
                  ts |-> [c.ts EXCEPT ![task].state = "running"]]

RECURSIVE RunNextTask(_)
\* _runNextTask, from the test of its loop to the await of a callback or to
\* its end; c is the queue and the tasks.  A callback that throws takes the
\* call through catch and --this.size back to the test of the loop.
RunNextTask(c) ==
    IF ~MayRunTask(c.q) THEN c
    ELSE LET task == Head(c.q.tasks)
             shifted == [c.q EXCEPT !.tasks = Tail(@), !.size = @ + 1]
         IN IF c.ts[task].kind = "throws"
            THEN RunNextTask([q |-> [shifted EXCEPT !.size = @ - 1],
                              ts |-> [c.ts EXCEPT ![task].state = "rejected"]])
            ELSE [q |-> shifted,
                  ts |-> [c.ts EXCEPT ![task].state = "running"]]

\* queueTask(runTaskCallback)
QueueTask(kind) ==
    /\ ioTaskQueue.made
    /\ Len(ioTasks) < MaxQueued
    /\ \E c \in {RunNextTask(
                     [q |-> [ioTaskQueue EXCEPT
                                 !.tasks = Append(@, Len(ioTasks) + 1)],
                      ts |-> Append(ioTasks, [kind |-> kind,
                                              state |-> "queued"])])} :
           /\ ioTaskQueue' = c.q
           /\ ioTasks' = c.ts
    /\ UNCHANGED <<finderVars, filterVars>>

\* The promise that the callback of task t returned settles.
CallbackSettles(t) ==
    /\ t \in DOMAIN ioTasks
    /\ ioTasks[t].state = "running"
    /\ ioTasks' = [ioTasks EXCEPT ![t].state = "returned"]
    /\ UNCHANGED <<ioTaskQueue, finderVars, filterVars>>

\* The resumption if --this.size were inside the try block, after
\* task.resolve: a callback that rejects keeps its slot.
AfterCallback_KeepSlot(t) ==
    /\ t \in DOMAIN ioTasks
    /\ ioTasks[t].state = "returned"
    /\ \E c \in {RunNextTask(
                     [q |-> [ioTaskQueue EXCEPT
                                 !.size = IF ioTasks[t].kind = "fulfils"
                                          THEN @ - 1 ELSE @],
                      ts |-> [ioTasks EXCEPT
                                 ![t].state =
                                     IF ioTasks[t].kind = "fulfils"
                                     THEN "resolved" ELSE "rejected"]])} :
           /\ ioTaskQueue' = c.q
           /\ ioTasks' = c.ts
    /\ UNCHANGED <<finderVars, filterVars>>

\* The _runNextTask call that awaits the callback of task t resumes:
\* task.resolve or task.reject, --this.size, and the loop goes on.
AfterCallback(t) ==
    /\ t \in DOMAIN ioTasks
    /\ ioTasks[t].state = "returned"
    /\ \E c \in {RunNextTask(
                     [q |-> [ioTaskQueue EXCEPT !.size = @ - 1],
                      ts |-> [ioTasks EXCEPT
                                 ![t].state =
                                     IF ioTasks[t].kind = "fulfils"
                                     THEN "resolved" ELSE "rejected"]])} :
           /\ ioTaskQueue' = c.q
           /\ ioTasks' = c.ts
    /\ UNCHANGED <<finderVars, filterVars>>

QueueNext ==
    \/ \E max \in 0..MaxConcurrent : NewConcurrentTaskQueue(max)
    \/ \E kind \in CallbackKinds : QueueTask(kind)
    \/ \E t \in 1..MaxQueued : CallbackSettles(t)
    \/ \E t \in 1..MaxQueued : AfterCallback(t)

QueueSpec == Init /\ [][QueueNext]_vars

\* Every callback that was started settles, and the _runNextTask call that
\* awaits it resumes.
QueueLiveSpec ==
    /\ QueueSpec
    /\ \A t \in 1..MaxQueued :
           /\ WF_vars(CallbackSettles(t))
           /\ WF_vars(AfterCallback(t))

\* ------------------------------------------------------------------------
\* Properties
\* ------------------------------------------------------------------------

\* The pool that serves the tasks of matcher m.
PoolOfTask(t) == asyncMatchers[tasks[t].matcher].workerPool

\* A findMatches call whose promise has neither resolved nor rejected.
Unsettled(t) == tasks[t].state \in {"queued", "posted"}

\* C1: over any sequence of addSource and findMatches calls on synchronous
\* matchers, no step removes a query from the matched set of a matcher.
C1_MatchedSetNeverLosesQuery ==
    [][\A m \in DOMAIN syncMatchers :
           syncMatchers[m].matchedQueries
               \subseteq syncMatchers'[m].matchedQueries]_vars

\* A matcher that found both queries, QuerySLG in a source text added after
\* the one that holds QueryTC or before it.
C1_Witness ==
    \E m \in DOMAIN syncMatchers :
        /\ syncMatchers[m].matchedQueries = {QueryTC, QuerySLG}
        /\ Cardinality(syncMatchers[m].sourceTexts) >= 3

\* C2: in every reachable state every pool has spawned at most numThreads
\* workers.
C2_WorkerCountAtMostNumThreads ==
    \A p \in DOMAIN pools : Len(pools[p].workers) <= pools[p].numThreads

\* A pool at its ceiling of two workers with a task that waits for one.
C2_Witness ==
    \E p \in DOMAIN pools :
        /\ pools[p].numThreads = 2
        /\ Len(pools[p].workers) = 2
        /\ Len(pools[p].taskQueue) >= 1

\* C3: with numThreads >= 1, when no worker fails and every worker answers,
\* every task submitted is eventually dispatched and resolved.
C3_EveryTaskEventuallyResolved ==
    \A t \in 1..MaxTasks :
        (numThreads >= 1 /\ t \in DOMAIN tasks)
            ~> (t \in DOMAIN tasks /\ tasks[t].state = "resolved")

\* One worker, three tasks: the first resolved while the third still waits.
C3_Witness ==
    /\ numThreads = 1
    /\ Len(tasks) >= 3
    /\ tasks[1].state = "resolved"
    /\ tasks[3].state = "queued"

\* C4: the promise of a task is resolved by the reply to the request that
\* was posted for that very task.
C4_ReplyResolvesOwnTask ==
    \A t \in DOMAIN tasks :
        tasks[t].state = "resolved" => tasks[t].repliedFor = t

\* Two tasks resolved by different workers with different results.
C4_Witness ==
    \E t1, t2 \in DOMAIN tasks :
        /\ tasks[t1].state = "resolved" /\ tasks[t2].state = "resolved"
        /\ tasks[t1].worker # tasks[t2].worker
        /\ tasks[t1].result = {} /\ tasks[t2].result = {QueryTC}

\* C5: a task that has left the pending queue of a pool was submitted after
\* no task that is still in that queue.
C5_FifoDispatch ==
    \A t1, t2 \in DOMAIN tasks :
        (t1 < t2 /\ PoolOfTask(t1) = PoolOfTask(t2)
                 /\ tasks[t1].state = "queued")
            => tasks[t2].state = "queued"

\* Tasks two and three waited together; the second was dispatched first.
C5_Witness ==
    /\ Len(tasks) >= 3
    /\ tasks[2].state = "posted"
    /\ tasks[3].state = "queued"
    /\ tasks[2].worker = tasks[1].worker

\* C6: once a matcher has been vended, every addQuery call throws and leaves
\* the query map as it was.
C6_AddQueryRefusedAfterVending ==
    [][(Len(asyncMatchers) > 0 /\ lastCall'.op = "addQuery")
           => (lastCall'.threw /\ queriesAndPatterns' = queriesAndPatterns)]_vars

\* C7: every live worker holds a copy of the query map that equals the
\* compiler's current map.
C7_WorkerSnapshotsEqualCompilerMap ==
    \A w \in DOMAIN workers :
        workers[w].state = "alive"
            => workers[w].queriesAndPatterns = queriesAndPatterns

\* C8: once an async matcher has results, no step removes a query from them.
C8_AsyncMatchedSetNeverLosesQuery ==
    [][\A m \in DOMAIN asyncMatchers :
           ~asyncMatchers[m].matchedQueriesNull
               => asyncMatchers[m].matchedQueries
                      \subseteq asyncMatchers'[m].matchedQueries]_vars

\* findMatches then getMatchedResults on a new synchronous matcher that was
\* given sourceTexts.
SyncResults(sourceTexts) ==
    findMatches(queriesAndPatterns, {}, AddSources({}, sourceTexts))

\* C9: a findMatches call resolves to what a new synchronous matcher finds in
\* the source texts the async matcher held when findMatches was called.
C9_ResultIsSyncResultOfSourcesAtCall ==
    \A t \in DOMAIN tasks :
        tasks[t].state = "resolved"
            => tasks[t].result = SyncResults(tasks[t].calledWith)

\* C10 as stated: getMatchedResults throws whenever a findMatches call of
\* the matcher is unsettled.
C10_ThrowsWhileAnyFindMatchesUnsettled ==
    (/\ lastCall.op = "getMatchedResults"
     /\ \E t \in DOMAIN tasks :
            tasks[t].matcher = lastCall.matcher /\ Unsettled(t))
        => lastCall.threw

\* C10 as amended: getMatchedResults throws whenever a findMatches call of
\* the matcher is unsettled and no findMatches call of the matcher has
\* resolved; after a resolved call it returns the latest results.
C10_ThrowsUntilFirstResolution ==
    lastCall.op = "getMatchedResults"
        => /\ (/\ \E t \in DOMAIN tasks :
                      tasks[t].matcher = lastCall.matcher /\ Unsettled(t)
               /\ \A t \in DOMAIN tasks :
                      tasks[t].matcher = lastCall.matcher
                          => tasks[t].state # "resolved")
                  => lastCall.threw
           /\ (\E t \in DOMAIN tasks :
                   tasks[t].matcher = lastCall.matcher
                       /\ tasks[t].state = "resolved")
                  => ~lastCall.threw

\* getMatchedResults threw while the first findMatches call was in flight.
C10_Witness ==
    /\ lastCall.op = "getMatchedResults"
    /\ lastCall.threw
    /\ \E t \in DOMAIN tasks :
           tasks[t].matcher = lastCall.matcher /\ tasks[t].state = "posted"

\* The worker w is in the idle queue of a pool of ps.
InIdleQueue(ps, w) ==
    \E p \in DOMAIN ps :
        \E i \in 1..Len(ps[p].idleWorkers) : ps[p].idleWorkers[i] = w

\* C11: the step in which a worker reports an error rejects the promise of
\* the task the worker runs and leaves the worker out of the idle queue; a
\* worker that has reported an error never enters the idle queue and is
\* never posted a task again.
C11_ErroredWorkerRetired ==
    [][\A w \in DOMAIN workers :
           /\ (workers[w].state = "alive" /\ workers'[w].state = "error")
                  => /\ tasks[workers[w].taskResolver].state = "posted"
                     /\ tasks[workers[w].taskResolver].worker = w
                     /\ tasks'[workers[w].taskResolver].state = "rejected"
                     /\ ~InIdleQueue(pools', w)
           /\ workers[w].state = "error"
                  => /\ ~InIdleQueue(pools', w)
                     /\ workers'[w].inbox = <<>>
                     /\ \A t \in DOMAIN tasks' :
                            tasks'[t].worker = w
                                => (t \in DOMAIN tasks /\ tasks[t].worker = w)]_vars

\* A worker failed on the first task and a task submitted afterwards was
\* posted to another worker.
C11_Witness ==
    \E w \in DOMAIN workers, t \in DOMAIN tasks :
        /\ workers[w].state = "error"
        /\ tasks[1].state = "rejected" /\ tasks[1].worker = w
        /\ t > 1 /\ tasks[t].state = "posted" /\ tasks[t].worker # w

\* The workers of pool p that have not reported an error.
NonCrashedWorkers(p) ==
    {i \in 1..Len(pools[p].workers) :
         workers[pools[p].workers[i]].state # "error"}

\* C12: a task submitted after a worker of its pool has reported an error,
\* when the pool has no idle worker, no waiting task and fewer than
\* numThreads workers that have not failed, is posted to a worker spawned
\* for it.
C12_TaskAfterCrashSpawnsWorker ==
    [][\A p \in DOMAIN pools :
           (/\ Len(tasks') = Len(tasks) + 1
            /\ asyncMatchers[tasks'[Len(tasks')].matcher].workerPool = p
            /\ pools[p].idleWorkers = <<>>
            /\ pools[p].taskQueue = <<>>
            /\ Cardinality(NonCrashedWorkers(p)) < Len(pools[p].workers)
            /\ Cardinality(NonCrashedWorkers(p)) < pools[p].numThreads)
               => /\ tasks'[Len(tasks')].state = "posted"
                  /\ tasks'[Len(tasks')].worker \notin DOMAIN workers]_vars

Min(a, b) == IF a <= b THEN a ELSE b

\* C13: after the submission of place i (counted from 0) in a run of
\* submissions made back-to-back from a pool whose workers, at most one,
\* were all idle, while no task of the run has settled, the pool has spawned
\* exactly min(i + 1, numThreads) workers, and its idle queue is empty once
\* the run has numThreads submissions.
C13_WorkerCountInBurst ==
    \A t \in DOMAIN tasks :
        (/\ t = Len(tasks)
         /\ tasks[t].burst >= 0
         /\ \A u \in (t - tasks[t].burst)..t : Unsettled(u))
            => LET i == tasks[t].burst
                   pool == pools[PoolOfTask(t)]
               IN /\ Len(pool.workers) = Min(i + 1, pool.numThreads)
                  /\ (i + 1 >= pool.numThreads => pool.idleWorkers = <<>>)

\* A run of two submissions that began with one idle worker: the first took
\* the idle worker, the second had a worker spawned for it.
C13_Witness ==
    /\ numThreads = 2
    /\ Len(tasks) = 3
    /\ tasks[1].state = "resolved"
    /\ tasks[2].burst = 0 /\ tasks[3].burst = 1
    /\ tasks[2].state = "posted" /\ tasks[2].worker = tasks[1].worker
    /\ tasks[3].state = "posted" /\ tasks[3].worker # tasks[1].worker

\* s holds every element of t exactly once and nothing else.
IsPermutation(s, t) ==
    /\ Len(s) = Len(t)
    /\ \A i \in 1..Len(t) :
           Cardinality({j \in 1..Len(s) : s[j] = t[i]}) = 1

\* C14: when every task submitted has resolved and no worker has reported an
\* error, no task waits in a pool and the idle queue of a pool holds every
\* worker the pool spawned exactly once; if a run of at least 2 * numThreads
\* back-to-back submissions was made, the pool has numThreads idle workers.
C14_QuiescentPoolAllIdle ==
    (/\ \A t \in DOMAIN tasks : tasks[t].state = "resolved"
     /\ \A w \in DOMAIN workers : workers[w].state # "error")
        => \A p \in DOMAIN pools :
               /\ pools[p].taskQueue = <<>>
               /\ IsPermutation(pools[p].idleWorkers, pools[p].workers)
               /\ (\E t \in DOMAIN tasks :
                       /\ PoolOfTask(t) = p
                       /\ tasks[t].burst + 1 >= 2 * pools[p].numThreads)
                      => Len(pools[p].idleWorkers) = pools[p].numThreads

\* Two tasks submitted back-to-back to a pool of one worker, and a task
\* submitted later, have all resolved; the worker is idle.
C14_Witness ==
    /\ numThreads = 1
    /\ Len(tasks) = 3
    /\ \A t \in DOMAIN tasks : tasks[t].state = "resolved"
    /\ tasks[2].burst = 1
    /\ \E p \in DOMAIN pools : pools[p].idleWorkers = pools[p].workers

\* The elements of the sequence s.
Range(s) == {s[k] : k \in DOMAIN s}

\* The sequence of line numbers s is in input order, no line twice.
InInputOrder(s) == \A a, b \in DOMAIN s : a < b => s[a] < s[b]

\* C15: what is written to stdout, and the warnings written, follow the
\* input order, and when the output or the warnings of line i have been
\* written the async function of every line before i has finished: the
\* output and the warnings it had are written.
C15_OutputInInputOrder ==
    /\ InInputOrder(stdout)
    /\ InInputOrder(stderr)
    /\ \A i \in Range(stdout) \cup Range(stderr) :
           \A j \in 1..(i - 1) :
               /\ lines[j].state = "fulfilled"
               /\ lines[j].wantLine => j \in Range(stdout)
               /\ lines[j].warnings => j \in Range(stderr)

\* The filter of line 3 resolved before that of line 2: line 1 is written,
\* line 3 is wanted and held back.
C15_Witness ==
    /\ stdout = <<1>>
    /\ Len(lines) = 3
    /\ lines[2].state = "filter"
    /\ lines[3].state = "awaitPrevious" /\ lines[3].wantLine

\* C16: a call on a synchronous matcher changes the source set and the
\* matched set of no other matcher of the compiler: a step changes at most
\* one matcher, what the matcher becomes is the result of addSource or of
\* findMatches on its own sets, and vending a matcher changes none.
C16_MatchersIndependent ==
    [][\A m \in DOMAIN syncMatchers :
           syncMatchers'[m] # syncMatchers[m]
               => /\ \A n \in DOMAIN syncMatchers \ {m} :
                         syncMatchers'[n] = syncMatchers[n]
                  /\ \/ \E sourceText \in ModelSources :
                            syncMatchers'[m] =
                                [syncMatchers[m] EXCEPT
                                    !.sourceTexts = addSource(@, sourceText)]
                     \/ syncMatchers'[m] =
                            [syncMatchers[m] EXCEPT
                                !.matchedQueries =
                                    findMatches(queriesAndPatterns, @,
                                                syncMatchers[m].sourceTexts)]]_vars

\* Two matchers of one compiler that hold different source texts and have
\* found different queries.
C16_Witness ==
    /\ Len(syncMatchers) = 2
    /\ syncMatchers[1].sourceTexts = {SourceTC}
    /\ syncMatchers[1].matchedQueries = {QueryTC}
    /\ SourceSLG \in syncMatchers[2].sourceTexts
    /\ syncMatchers[2].matchedQueries = {QuerySLG}

C18_SameStrippedFormSameMatches ==
    \A textA, textB \in MatchSources :
        (textA # textB /\ StripComments(textA) = StripComments(textB))
            => /\ SyncResults({textA, textB}) = SyncResults({textA})
               /\ SyncResults({textA, textB}) = SyncResults({textB})

\* C18 as amended: a matcher given both texts stores the two texts and
\* their common comment-stripped form, and finds every query that a
\* matcher given only one of the two texts finds.
C18_SameStrippedFormMoreMatches ==
    \A textA, textB \in MatchSources :
        (textA # textB /\ StripComments(textA) = StripComments(textB))
            => /\ AddSources({}, {textA, textB})
                      = {textA, textB, StripComments(textA)}
               /\ SyncResults({textA}) \cup SyncResults({textB})
                      \subseteq SyncResults({textA, textB})

\* The matcher was given "t.c(" and "t.c(//s.l.g" and no other text and has
\* found QueryTC and QuerySLG; given "t.c(" alone it finds QueryTC only.
C18_Witness ==
    /\ Len(syncMatchers) = 1
    /\ syncMatchers[1].sourceTexts = {SourceTC, SourceTCNote}
    /\ syncMatchers[1].matchedQueries = {QueryTC, QuerySLG}
    /\ SyncResults({SourceTC}) = {QueryTC}

\* The literal condition of a compiled query, its first, matches: each of
\* its patterns matches a text of sourceTexts.
LiteralMatches(compiledPatterns, sourceTexts) ==
    \A k \in 1..Len(compiledPatterns[1]) :
        SomeSourceMatches(compiledPatterns[1][k], sourceTexts)

\* C19: for the matcher in any reachable state, each query of the compiler
\* whose literal pattern matches a stored source text is in the matched set
\* after findMatches.
C19_LiteralDominance ==
    \A m \in DOMAIN syncMatchers, i \in 1..Len(queriesAndPatterns) :
        LiteralMatches(queriesAndPatterns[i].compiledPatterns,
                       syncMatchers[m].sourceTexts)
            => queriesAndPatterns[i].query
                   \in findMatches(queriesAndPatterns,
                                   syncMatchers[m].matchedQueries,
                                   syncMatchers[m].sourceTexts)

\* The three queries are added; the matcher holds "t.c(", which the literal
\* pattern of QueryTC matches and no alias pattern of it does, and has found
\* QueryTC alone.
C19_Witness ==
    /\ Len(queriesAndPatterns) = 3
    /\ Len(syncMatchers) = 1
    /\ syncMatchers[1].sourceTexts = {SourceTC}
    /\ syncMatchers[1].matchedQueries = {QueryTC}
    /\ \E i \in 1..3 :
           /\ queriesAndPatterns[i].query = QueryTC
           /\ LiteralMatches(queriesAndPatterns[i].compiledPatterns, {SourceTC})
           /\ \A c \in 2..Len(queriesAndPatterns[i].compiledPatterns) :
                  ~EveryPattern(queriesAndPatterns[i].compiledPatterns[c], 1,
                                {SourceTC}, <<>>).res

\* C20: for the compiler in any reachable state (the queries added so far,
\* in the order they were added) and the texts a matcher holds, a query of
\* the compiler is found by a run of findMatches iff a compiler that holds
\* this query alone finds it in the same texts; and no matcher has found a
\* query that the compiler with this query alone does not find.
C20_NoCrossQueryBleed ==
    \A m \in DOMAIN syncMatchers, i \in 1..Len(queriesAndPatterns) :
        LET query == queriesAndPatterns[i].query
            alone == findMatches(addQuery(<<>>, query), {},
                                 syncMatchers[m].sourceTexts)
        IN /\ query \in findMatches(queriesAndPatterns, {},
                                    syncMatchers[m].sourceTexts)
                  <=> query \in alone
           /\ query \in syncMatchers[m].matchedQueries => query \in alone

\* QuerySL was added before QuerySLG and shares a pattern with it; the
\* matcher holds "y.l.g" and "t.c(" and has found QueryTC only.
C20_Witness ==
    /\ Len(queriesAndPatterns) = 3
    /\ queriesAndPatterns[1].query = QuerySL
    /\ queriesAndPatterns[2].query = QuerySLG
    /\ PatternsOf(queriesAndPatterns[1].compiledPatterns)
           \cap PatternsOf(queriesAndPatterns[2].compiledPatterns) # {}
    /\ Len(syncMatchers) = 1
    /\ syncMatchers[1].sourceTexts = {SourceDotLG, SourceTC}
    /\ syncMatchers[1].matchedQueries = {QueryTC}

\* The queries the compiler holds: the keys of queriesAndPatterns.
CompilerQueries ==
    {queriesAndPatterns[i].query : i \in 1..Len(queriesAndPatterns)}

\* C21: in every reachable state, every member of the matched set of a
\* matcher, synchronous or asynchronous, is a query that was added to the
\* compiler.
C21_MatchedQueriesAreCompilerQueries ==
    /\ \A m \in DOMAIN syncMatchers :
           syncMatchers[m].matchedQueries \subseteq CompilerQueries
    /\ \A m \in DOMAIN asyncMatchers :
           asyncMatchers[m].matchedQueries \subseteq CompilerQueries

\* Both queries were added; the synchronous matcher has found QuerySLG, and
\* the asynchronous matcher has the results of a worker that found QueryTC.
C21_Witness ==
    /\ Len(queriesAndPatterns) = 2
    /\ Len(syncMatchers) = 1
    /\ QuerySLG \in syncMatchers[1].matchedQueries
    /\ \E m \in DOMAIN asyncMatchers :
           /\ ~asyncMatchers[m].matchedQueriesNull
           /\ QueryTC \in asyncMatchers[m].matchedQueries

\* C22: every call of getMatchedResults on a synchronous matcher has
\* returned one and the same Set object, the one a call made now returns,
\* whatever addSource and findMatches calls came between the calls; and the
\* object a call returned has the members of the matched set of now.
C22_SameResultObject ==
    \A m \in DOMAIN syncMatchers :
        \A r \in syncMatchers[m].returned :
            /\ r.ref = syncMatchers[m].ref
            /\ syncMatchers[m].sets[r.ref] = syncMatchers[m].matchedQueries

\* getMatchedResults returned an empty Set, then a query was matched, then
\* it returned a Set with the query: the Set returned first has the query.
C22_Witness ==
    \E m \in DOMAIN syncMatchers :
        \E r1, r2 \in syncMatchers[m].returned :
            /\ r1.members = {} /\ r2.members = {QueryTC}
            /\ syncMatchers[m].matchedQueries = {QueryTC, QuerySLG}
            /\ syncMatchers[m].sets[r1.ref] = {QueryTC, QuerySLG}

\* C23: addQuery on the synchronous compiler never fails: for every query,
\* those with characters special in a regular expression included, the call
\* (each step is one, of a query the compiler does not hold) returns and
\* the map holds one query more, with its compiled conditions.
C23_AddQueryNeverFails ==
    [][/\ ~lastCall'.threw
       /\ Len(queriesAndPatterns') = Len(queriesAndPatterns) + 1
       /\ LET added == queriesAndPatterns'[Len(queriesAndPatterns')]
          IN added.compiledPatterns = compileQuery(added.query)]_vars

\* C24: for the compiler in any reachable state and any query it holds,
\* addQuery of that query leaves the map as it is (the same keys in the
\* same order with the same conditions) and the pattern cache as it is, and
\* does not throw.
C24_DuplicateQueryIgnored ==
    \A i \in 1..Len(queriesAndPatterns) :
        LET query == queriesAndPatterns[i].query
        IN /\ addQuery(queriesAndPatterns, query) = queriesAndPatterns
           /\ addQueryRegExps(queriesAndPatterns, sharedRegExps, query)
                  = sharedRegExps
           /\ ENABLED (QcAddQuery(query) /\ lastCall' = lastCall)

\* The compiler holds the three queries, QuerySLG first, and the pattern
\* that QuerySL and QuerySLG share is once in the cache.
C24_Witness ==
    /\ Len(queriesAndPatterns) = 3
    /\ queriesAndPatterns[1].query = QuerySLG
    /\ queriesAndPatterns[2].query = QuerySL
    /\ Cardinality(sharedRegExps) = 10
    /\ Len(Flatten(queriesAndPatterns[1].compiledPatterns))
           + Len(Flatten(queriesAndPatterns[2].compiledPatterns))
           + Len(Flatten(queriesAndPatterns[3].compiledPatterns)) = 11

\* "=chrome.p1;x.p2" for the parts p1, p2, with browser for chrome when p1
\* is chrome: an alias is assigned the first part under a root, and the
\* second part is read from some variable.
AliasedFirstPartText(parts) ==
    <<"=">> \o (IF parts[1] = <<"c", "h", "r", "o", "m", "e">>
                THEN <<"b", "r", "o", "w", "s", "e", "r">>
                ELSE <<"c", "h", "r", "o", "m", "e">>)
           \o <<".">> \o parts[1] \o <<";", "x", ".">> \o parts[2]

\* C25: for a compiled query of n >= 2 parts, the condition made of the rhs
\* pattern of chrome/browser + first part and the dot pattern of the other
\* parts is among its conditions iff the first part is neither browser nor
\* chrome; a query under one of these roots has no pattern that starts
\* with chrome/browser, and a query of two parts is found in a text that
\* assigns root.first and reads .second from a variable iff it has no root.
C25_FirstPartAliasIffNoRoot ==
    \A i \in 1..Len(queriesAndPatterns) :
        LET query == queriesAndPatterns[i].query
            conditions == queriesAndPatterns[i].compiledPatterns
            parts == Split(query, ".")
            n == Len(parts)
            rooted == parts[1] \in {<<"c", "h", "r", "o", "m", "e">>,
                                    <<"b", "r", "o", "w", "s", "e", "r">>}
            aliased == <<re_rhs(PatternBody(TRUE, <<parts[1]>>)),
                         re_dot(PatternBody(FALSE, SubSeq(parts, 2, n)))>>
        IN n >= 2
            => /\ (\E c \in 1..Len(conditions) : conditions[c] = aliased)
                      <=> ~rooted
               /\ rooted => \A p \in PatternsOf(conditions) : ~p.body.host
               /\ (n = 2 /\ query \in PartQueries)
                      => (findMatches(queriesAndPatterns, {},
                                      {AliasedFirstPartText(parts)}) = {query}
                              <=> ~rooted)

\* The compiler holds "chrome.t", which is not found in "=browser.chrome;x.t".
C25_Witness ==
    /\ Len(queriesAndPatterns) = 1
    /\ queriesAndPatterns[1].query = <<"c", "h", "r", "o", "m", "e", ".", "t">>
    /\ Len(queriesAndPatterns[1].compiledPatterns) = 1
    /\ findMatches(queriesAndPatterns, {},
                   {<<"=", "b", "r", "o", "w", "s", "e", "r", ".",
                      "c", "h", "r", "o", "m", "e", ";", "x", ".", "t">>}) = {}

\* C26: the conditions of a compiled query of n parts are a non-empty list
\* of at most four: first the literal condition of one pattern; then alias
\* conditions of two patterns each, an rhs pattern of the first k parts and
\* a dot pattern of the parts left, by growing k in 1..3, only the one of
\* k = 1 under chrome/browser; the one of k = 2 is there iff n >= 3, the one
\* of k = 3 iff n >= 4.
C26_ConditionsOfQuery ==
    \A i \in 1..Len(queriesAndPatterns) :
        LET conditions == queriesAndPatterns[i].compiledPatterns
            parts == Split(queriesAndPatterns[i].query, ".")
            n == Len(parts)
            aliased(k) ==
                IF k > n THEN <<>>
                ELSE <<re_rhs(PatternBody(FALSE, SubSeq(parts, 1, k))),
                       re_dot(PatternBody(FALSE, SubSeq(parts, k + 1, n)))>>
            prefix(c) == conditions[c][1].body.parts
        IN /\ Len(conditions) \in 1..4
           /\ conditions[1] = <<re_any(PatternBody(FALSE, parts))>>
           /\ \A c \in 2..Len(conditions) :
                  /\ Len(conditions[c]) = 2
                  /\ conditions[c][1].ctor = "rhs"
                  /\ conditions[c][2].ctor = "dot"
                  /\ ~conditions[c][2].body.host
                  /\ prefix(c) \o conditions[c][2].body.parts = parts
                  /\ Len(prefix(c)) \in 1..3
                  /\ conditions[c][1].body.host <=> Len(prefix(c)) = 1
                  /\ \A d \in 2..(c - 1) : Len(prefix(d)) < Len(prefix(c))
           /\ (\E c \in 2..Len(conditions) : conditions[c] = aliased(2))
                  <=> n >= 3
           /\ (\E c \in 2..Len(conditions) : conditions[c] = aliased(3))
                  <=> n >= 4

\* "t.c.t.c.t", of five parts and no root, has four conditions.
C26_Witness ==
    /\ Len(queriesAndPatterns) = 1
    /\ queriesAndPatterns[1].query
           = <<"t", ".", "c", ".", "t", ".", "c", ".", "t">>
    /\ Len(queriesAndPatterns[1].compiledPatterns) = 4

\* A line with a driver-level error writes nothing to stdout and,
\* once its async function has finished, its warnings are written; when no
\* line meets an engine error, no promise rejects and main does not fail,
\* and when main returns 0 every line has been filtered, the lines wanted
\* are on stdout and the warnings of the lines with a driver-level error
\* are on stderr.
C27_LinesWithDriverErrors ==
    /\ \A i \in DOMAIN lines :
           lines[i].kind = "driverError"
               => /\ i \notin Range(stdout)
                  /\ lines[i].state = "fulfilled" => i \in Range(stderr)
    /\ (\A i \in DOMAIN lines : lines[i].kind # "engineError")
           => /\ mainState # "failed"
              /\ \A i \in DOMAIN lines : lines[i].state # "rejected"
              /\ mainState = "cleanup"
                     => \A i \in DOMAIN lines :
                            /\ lines[i].state = "fulfilled"
                            /\ i \in Range(stdout) <=> lines[i].kind = "match"
                            /\ i \in Range(stderr)
                                   <=> lines[i].kind = "driverError"

\* C27: a driver-level error on a line is never fatal for the batch: the
\* line writes nothing to stdout, its warnings are written, the other lines
\* are filtered and written, and unless a line meets an engine error main
\* returns 0 in the end.
C27_DriverErrorNotFatal ==
    /\ []C27_LinesWithDriverErrors
    /\ <>(\/ mainState = "cleanup"
          \/ \E i \in DOMAIN lines : lines[i].kind = "engineError")

\* The second of three lines had a driver-level error: main has returned 0,
\* the first and the third line are on stdout, the warning on stderr.
C27_Witness ==
    /\ mainState = "cleanup"
    /\ Len(lines) = 3
    /\ lines[2].kind = "driverError"
    /\ stdout = <<1, 3>>
    /\ stderr = <<2>>

\* The tasks of ioTasks in one of the given states.
TasksIn(states) == {t \in DOMAIN ioTasks : ioTasks[t].state \in states}

QueriesWithMatchingCondition(entries, texts) ==
    {entries[i].query : i \in
        {i \in 1..Len(entries) :
            \E c \in 1..Len(entries[i].compiledPatterns) :
                \A k \in 1..Len(entries[i].compiledPatterns[c]) :
                    \E text \in texts :
                        RegExpTest(
                            PatternRegExp(entries[i].compiledPatterns[c][k]),
                            text)}}

\* C29: for the matcher in any reachable state, the matched set after
\* findMatches is the matched set before it united with the queries that
\* have a condition each of whose patterns matches at least one stored
\* text; the cache of pattern results and the stop at the first condition
\* that matches make no difference.
C29_FindMatchesResult ==
    \A m \in DOMAIN syncMatchers :
        findMatches(queriesAndPatterns, syncMatchers[m].matchedQueries,
                    syncMatchers[m].sourceTexts)
            = syncMatchers[m].matchedQueries
                  \cup QueriesWithMatchingCondition(queriesAndPatterns,
                                                    syncMatchers[m].sourceTexts)

\* The matcher holds "=chrome.s", "y.l.g" and "t.c(" and has found the three
\* queries: QuerySL and QuerySLG by the alias condition, whose two patterns
\* match different texts; no single text makes either query match.
C29_Witness ==
    /\ Len(queriesAndPatterns) = 3
    /\ Len(syncMatchers) = 1
    /\ syncMatchers[1].sourceTexts = {SourceAliasS, SourceDotLG, SourceTC}
    /\ syncMatchers[1].matchedQueries = {QueryTC, QuerySL, QuerySLG}
    /\ \A text \in syncMatchers[1].sourceTexts :
           QueriesWithMatchingCondition(queriesAndPatterns, {text})
               \cap {QuerySL, QuerySLG} = {}

\* C30: a step spawns a worker for a pool only to post a task to it, with
\* no idle worker left and no more than numThreads workers spawned in all;
\* a task submitted while the idle queue is non-empty is posted to the head
\* of the idle queue and no worker is spawned, and so is the task at the
\* head of the pending queue when a worker that answers becomes idle.
C30_SpawnOnlyWithoutIdleWorker ==
    [][\A p \in DOMAIN pools :
           LET pool == pools[p]
               submitted == Len(tasks') = Len(tasks) + 1
                                /\ asyncMatchers[tasks'[Len(tasks')].matcher]
                                       .workerPool = p
               answered == {w \in DOMAIN workers :
                                /\ workers[w].pool = p
                                /\ workers[w].inbox # <<>>
                                /\ tasks[Head(workers[w].inbox).sentFor].state
                                       = "posted"
                                /\ tasks'[Head(workers[w].inbox).sentFor].state
                                       = "resolved"}
           IN /\ \A w \in DOMAIN workers' \ DOMAIN workers :
                     workers'[w].pool = p
                         => /\ \E t \in DOMAIN tasks' :
                                   /\ tasks'[t].state = "posted"
                                   /\ tasks'[t].worker = w
                                   /\ t \in DOMAIN tasks
                                          => tasks[t].state = "queued"
                            /\ pool.idleWorkers = <<>>
                            /\ pools'[p].idleWorkers = <<>>
                            /\ Len(pool.workers) < pool.numThreads
                            /\ Len(pools'[p].workers) <= pool.numThreads
              /\ (submitted /\ pool.idleWorkers # <<>>)
                     => /\ tasks'[Len(tasks')].state = "posted"
                        /\ tasks'[Len(tasks')].worker = Head(pool.idleWorkers)
                        /\ pools'[p].idleWorkers = Tail(pool.idleWorkers)
                        /\ DOMAIN workers' = DOMAIN workers
              /\ \A w \in answered :
                     pool.taskQueue # <<>>
                         => /\ tasks'[Head(pool.taskQueue)].state = "posted"
                            /\ tasks'[Head(pool.taskQueue)].worker
                                   = Head(Append(pool.idleWorkers, w))
                            /\ DOMAIN workers' = DOMAIN workers]_vars

\* Both workers of a pool of two were idle, the one spawned first at the
\* head; the task submitted then was posted to it and the other is idle.
C30_Witness ==
    /\ numThreads = 2
    /\ Len(tasks) = 3
    /\ tasks[1].state = "resolved" /\ tasks[2].state = "resolved"
    /\ tasks[1].worker # tasks[2].worker
    /\ tasks[3].state = "posted"
    /\ \E p \in DOMAIN pools :
           /\ Len(pools[p].workers) = 2
           /\ Len(pools[p].idleWorkers) = 1
           /\ tasks[3].worker # pools[p].idleWorkers[1]

\* The tasks posted to worker w whose promise has not settled.
InFlight(w) ==
    {t \in DOMAIN tasks : tasks[t].state = "posted" /\ tasks[t].worker = w}

\* C31: in every reachable state a worker holds at most one request it has
\* not answered and at most one posted task is unsettled on it, and the
\* resolver stored on a worker with a request is the one of the task the
\* request was posted for.
C31_OneInFlightTaskPerWorker ==
    \A w \in DOMAIN workers :
        /\ Len(workers[w].inbox) <= 1
        /\ Cardinality(InFlight(w)) <= 1
        /\ workers[w].inbox # <<>>
               => /\ workers[w].taskResolver = Head(workers[w].inbox).sentFor
                  /\ InFlight(w) = {workers[w].taskResolver}

\* A worker that answered one task works on another while a third waits.
C31_Witness ==
    \E w \in DOMAIN workers, t1, t2, t3 \in DOMAIN tasks :
        /\ tasks[t1].state = "resolved" /\ tasks[t1].worker = w
        /\ InFlight(w) = {t2}
        /\ tasks[t3].state = "queued"
        /\ PoolOfTask(t3) = workers[w].pool

\* The RegExp objects that the entries of the compiled queries hold.
CompiledObjects ==
    UNION {{queriesAndPatterns[i].objects[k] :
                k \in 1..Len(queriesAndPatterns[i].objects)} :
           i \in 1..Len(queriesAndPatterns)}

\* sharedRegExps holds one RegExp for a regexString, and the RegExps of the
\* compiled queries are the ones it holds, each for the string of its
\* pattern.
C32_OneObjectPerSource ==
    /\ \A e1, e2 \in sharedRegExps : e1.source = e2.source => e1 = e2
    /\ \A r1, r2 \in CompiledObjects :
           r1.source = r2.source => r1.object = r2.object
    /\ CompiledObjects \subseteq sharedRegExps
    /\ \A i \in 1..Len(queriesAndPatterns) :
           LET ps == Flatten(queriesAndPatterns[i].compiledPatterns)
           IN /\ Len(queriesAndPatterns[i].objects) = Len(ps)
              /\ \A k \in 1..Len(ps) :
                     queriesAndPatterns[i].objects[k].source
                         = RegExpString(ps[k])

\* C32: after any sequence of addQuery calls the pattern cache holds one
\* compiled pattern for a source string, no call takes an entry out of it,
\* and two patterns of the compiled queries with the same source string,
\* in one query or in two, are the same RegExp object.
C32_PatternsInterned ==
    /\ []C32_OneObjectPerSource
    /\ [][sharedRegExps \subseteq sharedRegExps']_vars

\* The five queries were given: one was rejected, one holds the same RegExp
\* twice, and a RegExp of one query is a RegExp of another.
C32_Witness ==
    /\ Len(queriesAndPatterns) = 4
    /\ lastCall.threw
    /\ \E i \in 1..4 :
           \E k1, k2 \in 1..Len(queriesAndPatterns[i].objects) :
               /\ k1 # k2
               /\ queriesAndPatterns[i].objects[k1]
                      = queriesAndPatterns[i].objects[k2]
    /\ \E i, j \in 1..4 :
           /\ i # j
           /\ \E k \in 1..Len(queriesAndPatterns[i].objects) :
                  \E l \in 1..Len(queriesAndPatterns[j].objects) :
                      /\ queriesAndPatterns[i].objects[k]
                             = queriesAndPatterns[j].objects[l]
                      /\ Flatten(queriesAndPatterns[i].compiledPatterns)[k]
                             # Flatten(queriesAndPatterns[j].compiledPatterns)[l]

\* C33: when main calls cleanupAndDestroy, the filter call of every input
\* line has settled and its output and warnings are written, and the pool
\* holds no task that waits or that a worker works on.
C33_DestroyAfterEveryLineSettled ==
    [][(mainState = "cleanup" /\ mainState' = "returned")
          => /\ \A i \in DOMAIN lines :
                    /\ lines[i].state = "fulfilled"
                    /\ lines[i].wantLine => i \in Range(stdout)
                    /\ lines[i].warnings => i \in Range(stderr)
             /\ \A t \in DOMAIN tasks : tasks[t].state = "resolved"
             /\ \A p \in DOMAIN pools : pools[p].taskQueue = <<>>
             /\ \A w \in DOMAIN workers : workers[w].inbox = <<>>]_vars

\* main has returned after two lines: both had their sources matched by
\* workers that destroy terminated, and one of them was written.
C33_Witness ==
    /\ mainState = "returned"
    /\ Len(lines) = 2
    /\ Len(tasks) = 2
    /\ Len(stdout) >= 1
    /\ \E w \in DOMAIN workers : workers[w].state = "terminated"

\* C34: whatever addSource and findMatches calls a synchronous matcher has
\* gone through, in whatever order, a findMatches call leaves it with the
\* matched set that a new matcher finds in one call on the same source
\* texts.
C34_InterleavingIndependent ==
    \A m \in DOMAIN syncMatchers :
        findMatches(queriesAndPatterns, syncMatchers[m].matchedQueries,
                    syncMatchers[m].sourceTexts)
            = findMatches(queriesAndPatterns, {}, syncMatchers[m].sourceTexts)

\* findMatches was called when the matcher held "t.c(" and one of "y.l.g"
\* and "=chrome.s"; the other was added since, and QuerySLG, whose two
\* patterns match one text each, waits for the next call.
C34_Witness ==
    /\ Len(syncMatchers) = 1
    /\ syncMatchers[1].matchedQueries = {QueryTC}
    /\ {SourceTC, SourceDotLG, SourceAliasS}
           \subseteq syncMatchers[1].sourceTexts
    /\ findMatches(queriesAndPatterns, {}, syncMatchers[1].sourceTexts)
           = {QueryTC, QuerySL, QuerySLG}

\* C35: under task submissions, worker replies and worker errors, every
\* worker in the idle queue of a pool is in the list of the workers the
\* pool spawned, is in the idle queue once, and has no request to answer
\* and no posted task unsettled.
C35_IdleWorkersSpawnedOnceAndFree ==
    \A p \in DOMAIN pools :
        LET idle == pools[p].idleWorkers
        IN /\ \A k \in DOMAIN idle : idle[k] \in Range(pools[p].workers)
           /\ \A j, k \in DOMAIN idle : j # k => idle[j] # idle[k]
           /\ \A k \in DOMAIN idle :
                  /\ workers[idle[k]].inbox = <<>>
                  /\ InFlight(idle[k]) = {}

\* Two workers served three tasks and both are idle, the one that answered
\* twice at the end of the queue.
C35_Witness ==
    \E p \in DOMAIN pools :
        /\ Len(pools[p].idleWorkers) = 2
        /\ Len(tasks) = 3
        /\ \A t \in DOMAIN tasks : tasks[t].state = "resolved"
        /\ tasks[3].worker = pools[p].idleWorkers[2]
        /\ \E t \in 1..2 : tasks[t].worker = pools[p].idleWorkers[2]

\* The callbacks are started in the order of the queueTask calls, and a
\* promise that has settled has the outcome of its callback.
C36_StartedInOrderWithOutcome ==
    /\ \A t1, t2 \in DOMAIN ioTasks :
           (t1 < t2 /\ ioTasks[t2].state # "queued")
               => ioTasks[t1].state # "queued"
    /\ \A t \in DOMAIN ioTasks :
           /\ ioTasks[t].state = "resolved" => ioTasks[t].kind = "fulfils"
           /\ ioTasks[t].state = "rejected"
                  => ioTasks[t].kind \in {"rejects", "throws"}

\* C36: the callbacks of a ConcurrentTaskQueue are started in the order
\* they were queued; when max >= 1 and every started callback settles,
\* every task queued is started and its promise is resolved if its callback
\* fulfilled and rejected if it rejected or threw.
C36_FifoAndEveryTaskSettles ==
    /\ []C36_StartedInOrderWithOutcome
    /\ \A t \in 1..MaxQueued :
           (t \in DOMAIN ioTasks /\ ioTaskQueue.max >= 1)
               ~> (/\ t \in DOMAIN ioTasks
                   /\ ioTasks[t].state = IF ioTasks[t].kind = "fulfils"
                                          THEN "resolved" ELSE "rejected")

\* A queue of max 1: the first task is resolved, the second runs, the third
\* and the fourth wait.
C36_Witness ==
    /\ ioTaskQueue.max = 1
    /\ Len(ioTasks) = 4
    /\ ioTasks[1].state = "resolved"
    /\ ioTasks[2].state = "running"
    /\ ioTaskQueue.tasks = <<3, 4>>

\* C37: the step in which a callback that rejected or threw is dealt with
\* rejects the promise of its task and gives its slot back: after it, size
\* counts the callbacks that have not been dealt with, and a task waits
\* only if max callbacks are running, so the head of the queue was started
\* in the slot if there was one.
C37_FailedCallbackReleasesSlot ==
    [][\A t \in DOMAIN ioTasks' :
           (/\ ioTasks'[t].kind \in {"rejects", "throws"}
            /\ ioTasks'[t].state \in {"resolved", "rejected"}
            /\ t \in DOMAIN ioTasks
                   => ioTasks[t].state \notin {"resolved", "rejected"})
               => /\ ioTasks'[t].state = "rejected"
                  /\ ioTaskQueue'.size =
                         Cardinality({u \in DOMAIN ioTasks' :
                                         ioTasks'[u].state
                                             \in {"running", "returned"}})
                  /\ ioTaskQueue'.tasks # <<>>
                         => ioTaskQueue'.size = ioTaskQueue'.max
                  /\ (t \in DOMAIN ioTasks /\ ioTaskQueue.tasks # <<>>)
                         => ioTasks'[Head(ioTaskQueue.tasks)].state
                                # "queued"]_vars

\* A queue of max 1: the first callback rejected and the second threw, both
\* promises are rejected and the third task runs in the slot.
C37_Witness ==
    /\ ioTaskQueue.max = 1
    /\ Len(ioTasks) >= 3
    /\ ioTasks[1].kind = "rejects" /\ ioTasks[1].state = "rejected"
    /\ ioTasks[2].kind = "throws" /\ ioTasks[2].state = "rejected"
    /\ ioTasks[3].state = "running"
    /\ ioTaskQueue.size = 1

\* C38: once the filter call of a line has taken an extension directory
\* for processing, no later line of the same directory is processed or
\* written, whatever became of the first; so no directory is written
\* twice.
C38_RootEmittedAtMostOnce ==
    /\ \A i, j \in DOMAIN lines :
           (i < j /\ lines[i].accepted /\ lines[j].extdir = lines[i].extdir)
               => /\ ~lines[j].accepted
                  /\ lines[j].matcher = 0
                  /\ ~lines[j].wantLine
                  /\ ~lines[j].warnings
                  /\ j \notin Range(stdout)
    /\ \A a, b \in DOMAIN stdout :
           a # b => lines[stdout[a]].extdir # lines[stdout[b]].extdir

\* Two lines of one directory whose files match: the first was written,
\* the second was dropped and its promise has fulfilled.
C38_Witness ==
    /\ Len(lines) = 2
    /\ lines[1].extdir = lines[2].extdir
    /\ lines[2].readable /\ lines[2].files = {SourceTC}
    /\ stdout = <<1>>
    /\ lines[2].state = "fulfilled"

\* IDENT DOT with IDENT = [A-Za-z_$][A-Za-z_$0-9]*.
RE_IDENT_DOT ==
    ReCat(<<RE_VAR_CHAR_START, ReStar(ReClass(VarCharStart \cup Digit)),
            RE_DOT>>)

\* dot(B) with IDENT DOT for RE_ALIAS_DOT.
IntendedDot(p) == ReCat(<<RE_IDENT_DOT, BodyRegExp(p.body), RE_AFTER>>)

\* The patterns of the compiled queries that re_dot built.
DotPatterns ==
    UNION {{p \in PatternsOf(queriesAndPatterns[i].compiledPatterns) :
                p.ctor = "dot"} : i \in 1..Len(queriesAndPatterns)}

\* Some "." of text has, before the white space in front of it, an
\* identifier character.
DotAfterIdentifier(text) ==
    \E i, k \in 1..Len(text) :
        /\ i < k
        /\ text[i] \in VarCharStart \cup Digit
        /\ \A j \in (i + 1)..(k - 1) : text[j] \in WhiteSpace
        /\ text[k] = "."

\* C39: a pattern built by re_dot matches in a text iff the pattern with an
\* identifier of any length for RE_VAR_CHAR_END does, it matches only if a
\* dot of the text follows an identifier character, and findMatches finds
\* "t.c" through its aliased condition exactly in those texts.
C39_AliasDotAsIntended ==
    \A m \in DOMAIN syncMatchers :
        /\ \A text \in syncMatchers[m].sourceTexts, p \in DotPatterns :
               /\ RegExpTest(PatternRegExp(p), text)
                      <=> RegExpTest(IntendedDot(p), text)
               /\ RegExpTest(PatternRegExp(p), text)
                      => DotAfterIdentifier(text)
        /\ (SourceHostT \in syncMatchers[m].sourceTexts
                /\ queriesAndPatterns # <<>>)
               => (QueryTC \in findMatches(queriesAndPatterns, {},
                                           syncMatchers[m].sourceTexts)
                      <=> \E text \in syncMatchers[m].sourceTexts :
                              RegExpTest(IntendedDot(
                                  re_dot(PatternBody(FALSE, <<<<"c">>>>))),
                                  text))

\* "t.c" was found with the alias "a1a" in front of ".c", which does not
\* end in digits alone after its first character.
C39_Witness ==
    /\ Len(syncMatchers) = 1
    /\ syncMatchers[1].sourceTexts
           = {SourceHostT, <<"a", "1", "a", ".", "c">>}
    /\ syncMatchers[1].matchedQueries = {QueryTC}

====
